---------------------------- MODULE Spec2Model ----------------------------
(***************************************************************************)
(* Model of the BTE document structuring engine (src/src/parser.ts):       *)
(* line reconstruction from positioned runs, noise filtering, metadata     *)
(* extraction, stack-based tree construction and text normalization.       *)
(*                                                                         *)
(* Text is modelled by TLA+ strings, on which TLC evaluates Len, SubSeq,   *)
(* Head, Tail and \o.  Every regular expression of the source is           *)
(* translated into an operator that scans the string the way the regular   *)
(* expression does.  JavaScript objects are modelled as indices into a     *)
(* heap (the sequence nodes); array indices of the source are 0-based and  *)
(* kept 0-based in the variable i, sequences of the model are 1-based.     *)
(***************************************************************************)
EXTENDS Integers, Sequences, FiniteSets, TLC

VARIABLES
    \* ---- buildTree / cleanTreeText (parser.ts 298-424)
    lines,        \* the TextLine[] given to buildTree (their .text)
    i,            \* the for-loop index of buildTree (0-based)
    stack,        \* the stack of open nodes (heap indices), bottom first
    nodes,        \* the heap of BteNode objects; nodes[1] is root
    headerText,   \* local headerText of the current iteration
    matchedType,  \* local matchedType of the current iteration
    pc,           \* position of the tree pipeline
    threw,        \* TRUE once the pipeline raised an exception
    origin,       \* history: origin[n] is the index of the header line of node n
    \* ---- cleanTreeText applied to one node.text, twice (parser.ts 412-418)
    normIn,       \* the node.text before normalization
    normOnce,     \* node.text after one cleanTreeText
    normTwice,    \* node.text after a second cleanTreeText
    normPc,       \* "raw", "once" or "twice"
    \* ---- cleanNoise applied to a line sequence, twice (parser.ts 213-232)
    noiseIn,      \* the lines given to cleanNoise (their .text)
    noiseOut,     \* the lines cleanNoise returns
    noiseOut2,    \* the lines cleanNoise returns when given noiseOut
    noisePc,      \* "raw", "once" or "twice"
    \* ---- extractTextFromPdf, invoked twice (parser.ts 141-196)
    pages,        \* content.items of each page of the document, as mapped to
                  \* pageItems: [text, x, y, hasEol]
    pageNo,       \* the loop variable i of the page loop
    pageItems,    \* pageItems of the current page after pageItems.sort
    textLines,    \* the array lines: [text, y, page]
    extractPc,    \* "page" (head of the page loop), "group" or "returned"
    call,         \* 1 in the first invocation, 2 in the second
    firstLines,   \* history: what the first invocation returned
    \* ---- extractGlobalMetadata (parser.ts 239-283)
    metaLines,    \* the argument lines (their .text)
    fileYear,     \* file.year
    fileNumber,   \* file.number
    today,        \* new Date().toISOString().split('T')[0] at the time of the call
    metaI,        \* the loop variable i of the scan
    foundDateText,
    foundNumber,
    foundVolume,
    dateStr,
    fullReference,
    metaPc,       \* "scan", "assemble" or "done"
    metaThrew,    \* TRUE when the call ended by an exception
    metaCall,     \* 1 in the first invocation, 2 in the second
    firstMeta,    \* history: what the first invocation returned
    \* ---- main: the loop over the documents of the crawler (index.ts 101-160)
    stream,       \* the documents crawlAll yields, each with its target
                  \* directory and with what becomes of it: [dir, fate]
    docNo,        \* the number of documents taken from the stream
    mainPc,       \* position of main
    totalDocs,
    successCount,
    errorCount,
    outputs,      \* the directories that hold an output.json
    parsedDocs,   \* history: the documents parser.parse returned a record for
    validDocs,    \* history: the documents whose record passed the schema
    savedDocs,    \* history: the documents fs.writeFileSync was called for
    \* ---- crawler: BteCrawler (crawler.ts)
    entry,        \* the method invoked: "identifyYear" or "crawlAll"
    crawlPc,      \* position of the crawler
    limit,        \* the argument of crawlAll: <<>> when omitted, <<n>> otherwise
    maxLimit,
    totalCollected,
    pending,      \* the form URLs whose GET has not been answered yet
    formGets,     \* history: the number of GETs issued per form URL
    html,         \* the page of the response getYearsFromPage handled last
    htmlUrl,      \* the form URL that page came from, "" when there is none
    issueYears,
    offprintYears,
    docType,      \* the type loopYears is scanning
    yearIdx,      \* index of the year being scanned (from 1)
    currentNum,
    consecutiveFailures,
    yielded,      \* history: the number of documents yielded to the consumer
    downloads,    \* history: the number of download requests issued
    lateRequest   \* history: a download request was issued with the limit reached

treeVars == <<lines, i, stack, nodes, headerText, matchedType, pc, threw, origin>>

normVars == <<normIn, normOnce, normTwice, normPc>>

noiseVars == <<noiseIn, noiseOut, noiseOut2, noisePc>>

extractVars == <<pages, pageNo, pageItems, textLines, extractPc, call, firstLines>>

metaVars ==
    <<metaLines, fileYear, fileNumber, today, metaI, foundDateText, foundNumber,
      foundVolume, dateStr, fullReference, metaPc, metaThrew, metaCall, firstMeta>>

mainVars ==
    <<stream, docNo, mainPc, totalDocs, successCount, errorCount, outputs,
      parsedDocs, validDocs, savedDocs>>

crawlVars ==
    <<entry, crawlPc, limit, maxLimit, totalCollected, pending, formGets, html,
      htmlUrl, issueYears, offprintYears, docType, yearIdx, currentNum,
      consecutiveFailures, yielded, downloads, lateRequest>>

vars == <<treeVars, normVars, noiseVars, extractVars, metaVars, mainVars, crawlVars>>

\* what a step of one component leaves alone: the state of the others
notTree == <<normVars, noiseVars, extractVars, metaVars, mainVars, crawlVars>>

notNorm == <<treeVars, noiseVars, extractVars, metaVars, mainVars, crawlVars>>

notNoise == <<treeVars, normVars, extractVars, metaVars, mainVars, crawlVars>>

notExtract == <<treeVars, normVars, noiseVars, metaVars, mainVars, crawlVars>>

notMeta == <<treeVars, normVars, noiseVars, extractVars, mainVars, crawlVars>>

notMain == <<treeVars, normVars, noiseVars, extractVars, metaVars, crawlVars>>

notCrawl == <<treeVars, normVars, noiseVars, extractVars, metaVars, mainVars>>

(***************************************************************************)
(* Bounds of the model.                                                    *)
(*                                                                         *)
(* The line vocabularies hold characters outside ASCII (n.º, Preâmbulo,    *)
(* março).  TLC keeps up to 8192 unexplored states in memory and moves     *)
(* more through files that do not preserve such characters, so the bounds  *)
(* and the vocabularies of the tree, noise and metadata specifications are *)
(* sized to keep every level of the search below that, for these bounds    *)
(* and for the next larger ones.                                           *)
(***************************************************************************)
MaxLines == 3        \* lines given to buildTree
MaxTokens == 5       \* fragments of a body text given to the normalizer
MaxNoiseLines == 3   \* lines given to cleanNoise
MaxRuns == 3         \* runs of a page given to extractTextFromPdf
MaxMetaLines == 2    \* lines of interest given to extractGlobalMetadata
MaxDocs == 3         \* documents the crawler yields to main
MaxOptions == 2      \* options of an enumerated select element
MaxYears == 2        \* years a form page offers to crawlAll
MaxNum == 2          \* the highest document number the server holds for a year
MaxLimit == 2        \* the highest limit given to crawlAll

(***************************************************************************)
(* JavaScript values.                                                      *)
(***************************************************************************)
\* The value of an absent optional property (header?, text?) and of an
\* out-of-range array read.  No input alphabet of the model contains "<".
Undefined == "<undefined>"

\* JavaScript truthiness of a string-or-undefined value.
Truthy(v) == v # Undefined /\ v # ""

(***************************************************************************)
(* Characters and the character classes of the regular expressions.        *)
(***************************************************************************)
Char(s, k) == IF k >= 1 /\ k <= Len(s) THEN SubSeq(s, k, k) ELSE Undefined

Digits == {"0", "1", "2", "3", "4", "5", "6", "7", "8", "9"}

\* \d
IsDigit(c) == c \in Digits

\* \s (the white space characters that occur in the inputs of the model)
IsSpace(c) == c \in {" ", "\t", "\n", "\r"}

\* [\r\n]
IsLineBreak(c) == c \in {"\n", "\r"}

UpperChars == "ABCDEFGHIJKLMNOPQRSTUVWXYZÇÃÕÁÂÉÊÍÓÚ"
LowerChars == "abcdefghijklmnopqrstuvwxyzçãõáâéêíóú"

CharSet(s) == {SubSeq(s, k, k) : k \in 1..Len(s)}

AsciiLetters == CharSet(SubSeq(UpperChars, 1, 26)) \cup CharSet(SubSeq(LowerChars, 1, 26))

\* [a-z] under the i flag
IsAsciiLetter(c) == c \in AsciiLetters

Letters == CharSet(UpperChars) \cup CharSet(LowerChars) \cup {"º", "ª"}

\* \p{L}: the letters of the inputs, the ordinal indicators included
\* (U+00BA and U+00AA are of category Lo)
IsLetter(c) == c \in Letters

LowerOf ==
    [c \in CharSet(UpperChars) |->
        LET k == CHOOSE k \in 1..Len(UpperChars) : SubSeq(UpperChars, k, k) = c
        IN  SubSeq(LowerChars, k, k)]

\* String.prototype.toLowerCase, one character
LowerChar(c) == IF c \in DOMAIN LowerOf THEN LowerOf[c] ELSE c

RECURSIVE ToLower(_)
\* String.prototype.toLowerCase
ToLower(s) == IF s = "" THEN "" ELSE LowerChar(Head(s)) \o ToLower(Tail(s))

RECURSIVE TrimStart(_)
TrimStart(s) == IF s # "" /\ IsSpace(Head(s)) THEN TrimStart(Tail(s)) ELSE s

RECURSIVE TrimEnd(_)
TrimEnd(s) ==
    IF s # "" /\ IsSpace(Char(s, Len(s))) THEN TrimEnd(SubSeq(s, 1, Len(s) - 1)) ELSE s

\* String.prototype.trim
Trim(s) == TrimEnd(TrimStart(s))

\* String.prototype.startsWith
StartsWith(s, p) == Len(s) >= Len(p) /\ SubSeq(s, 1, Len(p)) = p

\* a literal prefix matched under the i flag
StartsWithCI(s, p) == Len(s) >= Len(p) /\ ToLower(SubSeq(s, 1, Len(p))) = ToLower(p)

\* String.prototype.includes
Includes(s, p) == \E k \in 1..(Len(s) - Len(p) + 1) : SubSeq(s, k, k + Len(p) - 1) = p

RECURSIVE SkipSpaces(_, _)
\* the index after the maximal run of \s that starts at index k
SkipSpaces(s, k) == IF k <= Len(s) /\ IsSpace(Char(s, k)) THEN SkipSpaces(s, k + 1) ELSE k

RECURSIVE SkipDigits(_, _)
\* the index after the maximal run of \d that starts at index k
SkipDigits(s, k) == IF k <= Len(s) /\ IsDigit(Char(s, k)) THEN SkipDigits(s, k + 1) ELSE k


(***************************************************************************)
(* Text Normalizer: cleanTreeText (parser.ts 411-424).                     *)
(***************************************************************************)
\* /(\p{L})\s+-\s+(\p{L})/ anchored at the head of s: the index of the closing
\* letter of the match, 0 when there is none
SpacedHyphenEnd(s) ==
    IF IsLetter(Char(s, 1)) /\ IsSpace(Char(s, 2))
    THEN LET j == SkipSpaces(s, 2)
         IN  IF Char(s, j) = "-" /\ IsSpace(Char(s, j + 1))
             THEN LET m == SkipSpaces(s, j + 1)
                  IN  IF IsLetter(Char(s, m)) THEN m ELSE 0
             ELSE 0
    ELSE 0

RECURSIVE JoinSpacedHyphen(_)
\* text.replace(/(\p{L})\s+-\s+(\p{L})/gu, '$1$2'): matches are taken left to
\* right and do not overlap, the scan resumes after the closing letter
JoinSpacedHyphen(s) ==
    IF s = "" THEN ""
    ELSE LET e == SpacedHyphenEnd(s)
         IN  IF e > 0
             THEN Head(s) \o Char(s, e) \o JoinSpacedHyphen(SubSeq(s, e + 1, Len(s)))
             ELSE Head(s) \o JoinSpacedHyphen(Tail(s))

\* /(\p{L})-\s*[\r\n]+\s*(\p{L})/ anchored at the head of s: the white space
\* after the hyphen holds at least one line break and is followed by a letter
WrapHyphenEnd(s) ==
    IF IsLetter(Char(s, 1)) /\ Char(s, 2) = "-"
    THEN LET m == SkipSpaces(s, 3)
         IN  IF (\E k \in 3..(m - 1) : IsLineBreak(Char(s, k))) /\ IsLetter(Char(s, m))
             THEN m ELSE 0
    ELSE 0

RECURSIVE JoinWrapHyphen(_)
\* text.replace(/(\p{L})-\s*[\r\n]+\s*(\p{L})/gu, '$1$2')
JoinWrapHyphen(s) ==
    IF s = "" THEN ""
    ELSE LET e == WrapHyphenEnd(s)
         IN  IF e > 0
             THEN Head(s) \o Char(s, e) \o JoinWrapHyphen(SubSeq(s, e + 1, Len(s)))
             ELSE Head(s) \o JoinWrapHyphen(Tail(s))

\* [-–.)]  (the en dash is outside the character set of TLA+ strings; no
\* input of the model contains it)
IsListDelimiter(c) == c \in {"-", ".", ")"}

\* the look-ahead \s*(?:\d+|[a-z])\s*[-–.)] (flag i) at index k of s
StartsEnumerated(s, k) ==
    LET a == SkipSpaces(s, k)
        b == IF IsDigit(Char(s, a)) THEN SkipDigits(s, a)
             ELSE IF IsAsciiLetter(Char(s, a)) THEN a + 1 ELSE 0
    IN  b > 0 /\ IsListDelimiter(Char(s, SkipSpaces(s, b)))

RECURSIVE JoinAllLines(_, _)
\* the third replacement without its look-ahead: every \n becomes a space
JoinAllLines(s, k) ==
    IF k > Len(s) THEN ""
    ELSE (IF Char(s, k) = "\n" THEN " " ELSE Char(s, k)) \o JoinAllLines(s, k + 1)

RECURSIVE JoinLines(_, _)
\* text.replace(/\n(?!\s*(?:\d+|[a-z])\s*[-–.)])/gi, ' ') from index k on
JoinLines(s, k) ==
    IF k > Len(s) THEN ""
    ELSE (IF Char(s, k) = "\n" /\ ~StartsEnumerated(s, k + 1) THEN " " ELSE Char(s, k))
         \o JoinLines(s, k + 1)

\* the fourth replacement left out
CollapseNothing(s) == s

RECURSIVE CollapseSpaces(_)
\* text.replace(/\s{2,}/g, ' ')
CollapseSpaces(s) ==
    IF s = "" THEN ""
    ELSE IF IsSpace(Head(s)) /\ IsSpace(Char(s, 2))
         THEN " " \o CollapseSpaces(SubSeq(s, SkipSpaces(s, 1), Len(s)))
         ELSE Head(s) \o CollapseSpaces(Tail(s))

\* the five replacements cleanTreeText applies to a truthy node.text, in the
\* order of the source; each assignment to node.text is bound as a value
\* before the next replacement reads it
NormalizeText(t) ==
    CHOOSE r \in
        {Trim(s4) : s4 \in
            {CollapseSpaces(s3) : s3 \in
                {JoinLines(s2, 1) : s2 \in
                    {JoinWrapHyphen(s1) : s1 \in {JoinSpacedHyphen(t)}}}}} : TRUE

\* cleanTreeText with a node that has no text to normalize left without a text
cleanTreeTextDropEmpty(ns, id) ==
    [n \in DOMAIN ns |->
        [ns[n] EXCEPT !.text = IF Truthy(@) THEN NormalizeText(@) ELSE Undefined]]

RECURSIVE cleanTreeText(_, _)
RECURSIVE cleanChildren(_, _, _)
\* cleanTreeText(node): the heap after normalizing node id and its subtree
cleanTreeText(ns, id) ==
    LET n1 == IF Truthy(ns[id].text)
              THEN [ns EXCEPT ![id].text = NormalizeText(@)]
              ELSE ns
    IN  cleanChildren(n1, ns[id].children, 1)

\* for (const child of node.children) this.cleanTreeText(child)
cleanChildren(ns, children, k) ==
    IF k > Len(children) THEN ns
    ELSE cleanChildren(cleanTreeText(ns, children[k]), children, k + 1)

(***************************************************************************)
(* Tree Builder: buildTree, addChild, popUntilType (parser.ts 298-404).    *)
(***************************************************************************)
DiplomaKeywords ==
    {"Portaria", "Decreto-Lei", "Despacho", "Acordo", "Contrato", "Convenção",
     "Decisão", "Parecer", "Aviso"}

StructureKeywords == {"Capítulo", "Secção", "Anexo"}

ArticleKeywords == {"Artigo", "Cláusula"}

\* a keyword of kws (flag i) followed by \s+ : the index after the white space,
\* 0 when no keyword of kws starts the text that way
AfterKeyword(t, kws) ==
    IF \E kw \in kws : StartsWithCI(t, kw) /\ IsSpace(Char(t, Len(kw) + 1))
    THEN LET kw == CHOOSE kw \in kws : StartsWithCI(t, kw) /\ IsSpace(Char(t, Len(kw) + 1))
         IN  SkipSpaces(t, Len(kw) + 1)
    ELSE 0

\* patterns.diploma: /^(Portaria|...|Aviso)\s+(n\.º|número)?/i
MatchesDiploma(t) == AfterKeyword(t, DiplomaKeywords) > 0

\* [IVXLCDM\d] under the i flag
IsNumeralChar(c) == IsDigit(c) \/ LowerChar(c) \in {"i", "v", "x", "l", "c", "d", "m"}

\* patterns.structure: /^(Capítulo|Secção|Anexo)\s+[IVXLCDM\d]+|^Preâmbulo/i
MatchesStructure(t) ==
    \/ LET a == AfterKeyword(t, StructureKeywords) IN a > 0 /\ IsNumeralChar(Char(t, a))
    \/ StartsWithCI(t, "Preâmbulo")

\* patterns.article: /^(Artigo|Cláusula)\s+\d+/i
MatchesArticle(t) ==
    LET a == AfterKeyword(t, ArticleKeywords) IN a > 0 /\ IsDigit(Char(t, a))

\* the priority-ordered classification of a trimmed line; "null" is no match
Classify(t) ==
    IF MatchesDiploma(t) THEN "diploma"
    ELSE IF MatchesStructure(t) THEN "chapter"
    ELSE IF MatchesArticle(t) THEN "article"
    ELSE "null"

\* /^Preâmbulo$/i.test(headerText.trim())
IsStrictPreambulo(t) == ToLower(Trim(t)) = ToLower("Preâmbulo")

\* the length under which a following line may continue a header
MaxTitleLength == 250

\* looksLikeTitle without the test of the closing punctuation
LooksLikeTitleAnyEnding(nextLine) ==
    /\ Len(nextLine) > 0
    /\ Len(nextLine) < 250
    /\ ~MatchesArticle(nextLine)
    /\ ~MatchesStructure(nextLine)
    /\ ~MatchesDiploma(nextLine)
    /\ ~(IsDigit(Char(nextLine, 1))
         /\ Char(nextLine, SkipDigits(nextLine, 1)) \in {".", "-"})
    /\ ~StartsWithCI(nextLine, "Preâmbulo")

\* looksLikeTitle of the header-merge loop
LooksLikeTitle(nextLine) ==
    /\ Len(nextLine) > 0
    /\ Len(nextLine) < MaxTitleLength
    /\ ~MatchesArticle(nextLine)
    /\ ~MatchesStructure(nextLine)
    /\ ~MatchesDiploma(nextLine)
    /\ ~(IsDigit(Char(nextLine, 1))                           \* /^\d+[\.\-]/
         /\ Char(nextLine, SkipDigits(nextLine, 1)) \in {".", "-"})
    /\ ~StartsWithCI(nextLine, "Preâmbulo")                   \* /^(Preâmbulo)/i
    /\ Char(nextLine, Len(nextLine)) \notin {".", ":", ";"}   \* /[.:;]$/

\* the loop condition off by one: while (i + 1 <= lines.length)
WhileCondOffByOne(idx, n) == idx + 1 <= n

\* the condition of the header-merge loop: while (i + 1 < lines.length)
WhileCond(idx, n) == idx + 1 < n

\* { type, header, children: [] }, with text = "" for an article
NewNode(type, header) ==
    [type     |-> type,
     header   |-> header,
     text     |-> IF type = "article" THEN "" ELSE Undefined,
     children |-> <<>>]

RootNode == [type |-> "root", header |-> Undefined, text |-> Undefined, children |-> <<>>]

Top(st) == st[Len(st)]

\* addChild with the node put first among the children of the stack top
addChildFirst(ns, st, node) ==
    LET id == Len(ns) + 1
    IN  [nodes |-> Append([ns EXCEPT ![Top(st)].children = <<id>> \o @], node),
         stack |-> Append(st, id)]

\* addChild with the node pushed to the children of root as well
addChildTwice(ns, st, node) ==
    LET id == Len(ns) + 1
        n1 == [ns EXCEPT ![Top(st)].children = Append(@, id)]
    IN  [nodes |-> Append([n1 EXCEPT ![1].children = Append(@, id)], node),
         stack |-> Append(st, id)]

\* addChild(stack, node): the node is allocated at the next heap index, pushed
\* to the children of the stack top and then onto the stack
addChild(ns, st, node) ==
    LET id == Len(ns) + 1
    IN  [nodes |-> Append([ns EXCEPT ![Top(st)].children = Append(@, id)], node),
         stack |-> Append(st, id)]

\* popUntilType that pops one node at most
popOnce(ns, st, types) ==
    IF Len(st) > 1 /\ ns[Top(st)].type \notin types
    THEN SubSeq(st, 1, Len(st) - 1)
    ELSE st

\* popUntilType that pops nothing
popNothing(ns, st, types) == st

RECURSIVE popUntilType(_, _, _)
\* popUntilType(stack, types)
popUntilType(ns, st, types) ==
    IF Len(st) > 1 /\ ns[Top(st)].type \notin types
    THEN popUntilType(ns, SubSeq(st, 1, Len(st) - 1), types)
    ELSE st

\* the stack a node is added under when an open chapter is not popped for a
\* chapter
StackForChapterNested(ns, st, type) ==
    IF type = "diploma" THEN <<1>>
    ELSE popUntilType(ns, st, {"chapter", "diploma", "root"})

\* the stack a node is added under when an open chapter is popped for an
\* article
StackForArticleAbove(ns, st, type) ==
    IF type = "diploma" THEN <<1>>
    ELSE popUntilType(ns, st, {"diploma", "root"})

\* the stack a node is added under when a diploma does not reset it
StackForOpenDiploma(ns, st, type) ==
    IF type = "diploma" THEN popUntilType(ns, st, {"chapter", "diploma", "root"})
    ELSE IF type = "chapter" THEN popUntilType(ns, st, {"diploma", "root"})
    ELSE popUntilType(ns, st, {"chapter", "diploma", "root"})

\* the stack a node is added under when an open article is not popped
StackForUnderArticle(ns, st, type) ==
    IF type = "diploma" THEN <<1>>
    ELSE IF type = "chapter" THEN popUntilType(ns, st, {"diploma", "root", "article"})
    ELSE popUntilType(ns, st, {"chapter", "diploma", "root", "article"})

\* the stack a node of the given type is added under (parser.ts 363-374)
StackFor(ns, st, type) ==
    IF type = "diploma" THEN <<1>>
    ELSE IF type = "chapter" THEN popUntilType(ns, st, {"diploma", "root"})
    ELSE popUntilType(ns, st, {"chapter", "diploma", "root"})

\* creation and insertion of the node of a matched header (parser.ts 359-374)
InsertNode(ns, st, type, header) == addChild(ns, StackFor(ns, st, type), NewNode(type, header))

\* AppendBody with a newline before every line, the first included
AppendBodyLeadingNewline(ns, st, text) ==
    LET cur == Top(st)
        old == IF Truthy(ns[cur].text) THEN ns[cur].text ELSE ""
    IN  IF ns[cur].type # "root"
        THEN [ns EXCEPT ![cur].text = old \o "\n" \o text]
        ELSE ns

\* AppendBody without the test of the current node's type
AppendBodyAnywhere(ns, st, text) ==
    LET cur == Top(st)
        old == IF Truthy(ns[cur].text) THEN ns[cur].text ELSE ""
    IN  [ns EXCEPT ![cur].text = old \o (IF Truthy(old) THEN "\n" ELSE "") \o text]

\* body content appended to the current node (parser.ts 379-383)
AppendBody(ns, st, text) ==
    LET cur == Top(st)
        old == IF Truthy(ns[cur].text) THEN ns[cur].text ELSE ""
    IN  IF ns[cur].type # "root"
        THEN [ns EXCEPT ![cur].text = old \o (IF Truthy(old) THEN "\n" ELSE "") \o text]
        ELSE ns

\* The lines the tree builder is run on: a diploma header, a header
\* continuation, a chapter header, the preamble caption, an article header, a
\* sentence, an enumerated item and an empty line.  TLC evaluates the
\* recursive string operators on the Java stack, one level per character, so
\* the lines that can become body text are short.
TreeLines ==
    {"Portaria n.º 123/2024", "do trabalho", "Capítulo I",
     "Preâmbulo", "Artigo 1.º", "Texto geral.", "1. alínea", ""}

RECURSIVE SeqsUpTo(_, _)
\* the sequences over S of length at most n
SeqsUpTo(S, n) ==
    IF n = 0 THEN {<<>>}
    ELSE LET shorter == SeqsUpTo(S, n - 1)
         IN  shorter \cup {Append(q, x) : q \in {r \in shorter : Len(r) = n - 1}, x \in S}

\* the line sequences buildTree is run on
TreeInputs == SeqsUpTo(TreeLines, MaxLines)

\* The raw lines parse is run on: a page number, a category caption and a
\* footer, which the noise filter rejects, among a diploma header, the
\* preamble caption, an article header, a header continuation and a sentence,
\* which it keeps.  No kept line contains the text of a rejected one.
ParseLines ==
    {"42", "PRIVADO", "BTE 5 | 12",
     "Portaria n.º 123/2024", "Preâmbulo", "Artigo 1.º", "do trabalho", "Texto geral."}

\* rawLines of parse
ParseInputs == SeqsUpTo(ParseLines, MaxNoiseLines)

\* before parse calls buildTree
TreeStart ==
    /\ lines = <<>>
    /\ i = 0
    /\ stack = <<1>>
    /\ nodes = <<RootNode>>
    /\ headerText = ""
    /\ matchedType = "null"
    /\ pc = "start"
    /\ threw = FALSE
    /\ origin = <<-1>>

\* the tree builder is not run
TreeIdle ==
    /\ lines = <<>>
    /\ i = 0
    /\ stack = <<1>>
    /\ nodes = <<RootNode>>
    /\ headerText = ""
    /\ matchedType = "null"
    /\ pc = "idle"
    /\ threw = FALSE
    /\ origin = <<-1>>

\* this.buildTree(cleanLines): the call, with the lines it is given
BuildTreeCall ==
    /\ UNCHANGED notTree
    /\ pc = "start"
    /\ lines' \in TreeInputs
    /\ pc' = "for"
    /\ UNCHANGED <<i, stack, nodes, headerText, matchedType, threw, origin>>

\* What buildTree computes from the text of one line, tabulated once per line
\* of TreeLines: the trimmed text, its classification, the exact-preamble
\* test and looksLikeTitle.
LineFacts ==
    [t \in TreeLines \cup ParseLines |->
        [text   |-> Trim(t),
         type   |-> Classify(Trim(t)),
         strict |-> IsStrictPreambulo(Trim(t)),
         title  |-> LooksLikeTitle(Trim(t))]]

\* let text = line.text.trim()
LineText(k) == LineFacts[lines[k + 1]].text

\* matchedType of line k
LineType(k) == LineFacts[lines[k + 1]].type

\* a for-loop iteration whose line matches a pattern other than the exact
\* preamble caption: enter the header-merge loop
ForHeader ==
    /\ UNCHANGED notTree
    /\ pc = "for"
    /\ i < Len(lines)
    /\ LineType(i) # "null"
    /\ ~LineFacts[lines[i + 1]].strict
    /\ matchedType' = LineType(i)
    /\ headerText' = LineText(i)
    /\ pc' = "while"
    /\ origin' = Append(origin, i)
    /\ UNCHANGED <<lines, i, stack, nodes, threw>>

\* a for-loop iteration whose line is the exact preamble caption: no merge
ForPreambulo ==
    /\ UNCHANGED notTree
    /\ pc = "for"
    /\ i < Len(lines)
    /\ LineType(i) # "null"
    /\ LineFacts[lines[i + 1]].strict
    /\ LET r == InsertNode(nodes, stack, LineType(i), LineText(i))
       IN  nodes' = r.nodes /\ stack' = r.stack
    /\ i' = i + 1
    /\ origin' = Append(origin, i)
    /\ UNCHANGED <<lines, headerText, matchedType, pc, threw>>

\* one iteration of the header-merge loop that appends the next line; reading
\* lines[i+1].text of an index past the end raises a TypeError
WhileMerge ==
    /\ UNCHANGED notTree
    /\ pc = "while"
    /\ WhileCond(i, Len(lines))
    /\ IF i + 1 >= Len(lines)
       THEN /\ threw' = TRUE
            /\ pc' = "threw"
            /\ UNCHANGED <<lines, i, stack, nodes, headerText, matchedType, origin>>
       ELSE /\ LineFacts[lines[i + 2]].title
            /\ headerText' = headerText \o " " \o LineText(i + 1)
            /\ i' = i + 1
            /\ UNCHANGED <<lines, stack, nodes, matchedType, pc, threw, origin>>

\* WhileExit with the for loop going on at the last line the header absorbed
WhileExitRereads ==
    /\ UNCHANGED notTree
    /\ pc = "while"
    /\ \/ ~WhileCond(i, Len(lines))
       \/ i + 1 < Len(lines) /\ ~LineFacts[lines[i + 2]].title
    /\ LET r == InsertNode(nodes, stack, matchedType, headerText)
       IN  nodes' = r.nodes /\ stack' = r.stack
    /\ i' = IF i > origin[Len(origin)] THEN i ELSE i + 1
    /\ headerText' = ""
    /\ matchedType' = "null"
    /\ pc' = "for"
    /\ UNCHANGED <<lines, threw, origin>>

\* the header-merge loop ends (no next line, or it does not look like a
\* title): the node is created and added, and the for loop continues
WhileExit ==
    /\ UNCHANGED notTree
    /\ pc = "while"
    /\ \/ ~WhileCond(i, Len(lines))
       \/ i + 1 < Len(lines) /\ ~LineFacts[lines[i + 2]].title
    /\ LET r == InsertNode(nodes, stack, matchedType, headerText)
       IN  nodes' = r.nodes /\ stack' = r.stack
    /\ i' = i + 1
    /\ headerText' = ""
    /\ matchedType' = "null"
    /\ pc' = "for"
    /\ UNCHANGED <<lines, threw, origin>>

\* a for-loop iteration whose line matches no pattern: body content
ForBody ==
    /\ UNCHANGED notTree
    /\ pc = "for"
    /\ i < Len(lines)
    /\ LineType(i) = "null"
    /\ nodes' = AppendBody(nodes, stack, LineText(i))
    /\ i' = i + 1
    /\ UNCHANGED <<lines, stack, headerText, matchedType, pc, threw, origin>>

\* the for loop ends: buildTree returns root
ForExit ==
    /\ UNCHANGED notTree
    /\ pc = "for"
    /\ i >= Len(lines)
    /\ pc' = "clean"
    /\ UNCHANGED <<lines, i, stack, nodes, headerText, matchedType, threw, origin>>

\* this.cleanTreeText(rootNode) in parse
CleanTree ==
    /\ UNCHANGED notTree
    /\ pc = "clean"
    /\ nodes' = cleanTreeText(nodes, 1)
    /\ pc' = "done"
    /\ UNCHANGED <<lines, i, stack, headerText, matchedType, threw, origin>>

TreeStep ==
    \/ BuildTreeCall
    \/ ForHeader
    \/ ForPreambulo
    \/ WhileMerge
    \/ WhileExit
    \/ ForBody
    \/ ForExit
    \/ CleanTree

(***************************************************************************)
(* The normalizer as a function of one body text, applied twice.           *)
(***************************************************************************)
\* The fragments body texts are composed of: a letter, a spaced hyphen, a
\* hyphen at a line wrap, a line break, an enumeration marker and a space.
NormTokens == {"a", " - ", "-\n", "\n", "1.", " "}

RECURSIVE Concat(_)
\* the concatenation of a sequence of strings
Concat(q) == IF q = <<>> THEN "" ELSE Head(q) \o Concat(Tail(q))

\* body texts in words: a line break before a word, a line break before an
\* enumeration marker, a word hyphenated at a line wrap
NormExamples == {"item 1.\nitem 2.", "item 1.\n2. item", "traba-\nlho"}

NormInputs == {Concat(q) : q \in SeqsUpTo(NormTokens, MaxTokens)} \cup NormExamples

\* cleanTreeText on a node without children: if (node.text) node.text = ...
CleanText(t) == IF Truthy(t) THEN NormalizeText(t) ELSE t

NormStart ==
    /\ normIn \in NormInputs
    /\ normOnce = Undefined
    /\ normTwice = Undefined
    /\ normPc = "raw"

NormIdle ==
    /\ normIn = ""
    /\ normOnce = Undefined
    /\ normTwice = Undefined
    /\ normPc = "idle"

\* cleanTreeText on the node
NormalizeOnce ==
    /\ UNCHANGED notNorm
    /\ normPc = "raw"
    /\ normOnce' = CleanText(normIn)
    /\ normPc' = "once"
    /\ UNCHANGED <<normIn, normTwice>>

\* cleanTreeText on the node it has already normalized
NormalizeAgain ==
    /\ UNCHANGED notNorm
    /\ normPc = "once"
    /\ normTwice' = CleanText(normOnce)
    /\ normPc' = "twice"
    /\ UNCHANGED <<normIn, normOnce>>

NormStep == NormalizeOnce \/ NormalizeAgain

(***************************************************************************)
(* The regular expressions of the parser, as sequences of elements each    *)
(* matched greedily at an index of the text: none of the patterns below    *)
(* can match by giving back what an element has taken.                     *)
(***************************************************************************)
\* s has the characters of p from index k on
MatchAt(s, k, p) == k >= 1 /\ k + Len(p) - 1 <= Len(s) /\ SubSeq(s, k, k + Len(p) - 1) = p

\* the same, letter case ignored (the i flag)
MatchAtCI(s, k, p) ==
    k >= 1 /\ k + Len(p) - 1 <= Len(s) /\ ToLower(SubSeq(s, k, k + Len(p) - 1)) = ToLower(p)

\* the object literal map of convertDateToISO, whose keys are the names of
\* monthsRegex
MonthMap ==
    [m \in {"janeiro", "fevereiro", "março", "abril", "maio", "junho", "julho",
            "agosto", "setembro", "outubro", "novembro", "dezembro"} |->
        CASE m = "janeiro" -> "01" [] m = "fevereiro" -> "02" [] m = "março" -> "03"
          [] m = "abril" -> "04" [] m = "maio" -> "05" [] m = "junho" -> "06"
          [] m = "julho" -> "07" [] m = "agosto" -> "08" [] m = "setembro" -> "09"
          [] m = "outubro" -> "10" [] m = "novembro" -> "11" [] m = "dezembro" -> "12"]

\* the length of the month name of monthsRegex at index k of txt, or 0
MonthLenAt(txt, k) ==
    LET hits == {m \in DOMAIN MonthMap : MatchAtCI(txt, k, m)}
    IN  IF hits = {} THEN 0 ELSE Len(CHOOSE m \in hits : TRUE)

\* (?:de\s+)? taken at index k of txt: the index after it, k when it is not there
SkipDe(txt, k) ==
    IF MatchAtCI(txt, k, "de") /\ IsSpace(Char(txt, k + 2))
    THEN SkipSpaces(txt, k + 2)
    ELSE k

YearLength == 4

\* the index after the element el matched at index k of txt, 0 when it does
\* not match there; an element that is none of the classes is a literal,
\* matched with letter case ignored
StepEnd(txt, k, el) ==
    IF k = 0 THEN 0
    ELSE CASE el = "\\s*" -> SkipSpaces(txt, k)
           [] el = "\\s+" -> IF IsSpace(Char(txt, k)) THEN SkipSpaces(txt, k) ELSE 0
           [] el = "\\d+" -> IF IsDigit(Char(txt, k)) THEN SkipDigits(txt, k) ELSE 0
           [] el = "\\d{1,2}" ->
                  IF ~IsDigit(Char(txt, k)) THEN 0
                  ELSE IF IsDigit(Char(txt, k + 1)) THEN k + 2 ELSE k + 1
           [] el = "\\d{4}" ->
                  IF \A j \in 0..(YearLength - 1) : IsDigit(Char(txt, k + j))
                  THEN k + YearLength
                  ELSE 0
           [] el = "(?:de\\s+)?" -> SkipDe(txt, k)
           [] el = "(months)" ->
                  IF MonthLenAt(txt, k) > 0 THEN k + MonthLenAt(txt, k) ELSE 0
           [] OTHER -> IF MatchAtCI(txt, k, el) THEN k + Len(el) ELSE 0

RECURSIVE MatchFrom(_, _, _, _)
\* the elements j.. of the pattern pat matched one after the other from index k
\* of txt: the index where each starts, and last the index after the match,
\* which is 0 when the pattern does not match
MatchFrom(txt, k, pat, j) ==
    IF j > Len(pat) THEN <<k>>
    ELSE CHOOSE r \in
             UNION {{<<k>> \o rest : rest \in {MatchFrom(txt, e, pat, j + 1)}} :
                       e \in {StepEnd(txt, k, pat[j])}} : TRUE

\* the index after the match of pat at index k of txt, or 0
MatchEnd(txt, k, pat) == MatchFrom(txt, k, pat, 1)[Len(pat) + 1]

(***************************************************************************)
(* Noise Filter: cleanNoise (parser.ts 213-232).                           *)
(***************************************************************************)
\* /^\d+$/.test(txt)
IsDigitsOnly(txt) == Len(txt) > 0 /\ SkipDigits(txt, 1) = Len(txt) + 1

PublicationName == "Boletim do Trabalho e Emprego"

\* txt.includes("Boletim do Trabalho e Emprego")
HasPublicationName(txt) == Includes(txt, PublicationName)

\* txt.includes("|") && txt.includes("Vol.") && txt.includes("n.º")
IsVolumeHeader(txt) == Includes(txt, "|") /\ Includes(txt, "Vol.") /\ Includes(txt, "n.º")

FooterPattern == <<"BTE", "\\s+", "\\d+", "\\s*", "|", "\\s*", "\\d+">>

\* /^BTE\s+\d+\s*\|\s*\d+$/i.test(txt)
IsFooter(txt) == MatchEnd(txt, 1, FooterPattern) = Len(txt) + 1

\* the captions of ignorePatterns that must match the whole line
ExactCaptions ==
    {"CONVENÇÕES COLETIVAS", "PRIVADO", "REGULAMENTAÇÃO DO TRABALHO",
     "ORGANIZAÇÕES DO TRABALHO", "CONSELHO ECONÓMICO E SOCIAL"}

\* the captions of ignorePatterns followed by .*
PrefixCaptions == {"ARBITRAGEM", "Acórdão"}

\* ignorePatterns.test(txt): /^(...|ARBITRAGEM.*|Acórdão.*)$/i
IsCategoryCaption(txt) ==
    \/ \E c \in ExactCaptions : ToLower(txt) = ToLower(c)
    \/ \E c \in PrefixCaptions : StartsWithCI(txt, c)

\* the filter callback without the test of the footer pattern
KeepLineNoFooter(line) ==
    LET txt == Trim(line)
    IN  /\ ~IsDigitsOnly(txt)
        /\ ~HasPublicationName(txt)
        /\ ~IsVolumeHeader(txt)
        /\ ~IsCategoryCaption(txt)

\* the callback of lines.filter: TRUE when the line is kept
KeepLine(line) ==
    LET txt == Trim(line)
    IN  /\ ~IsDigitsOnly(txt)
        /\ ~HasPublicationName(txt)
        /\ ~IsVolumeHeader(txt)
        /\ ~IsFooter(txt)
        /\ ~IsCategoryCaption(txt)

\* cleanNoise that keeps every line
cleanNoiseNothing(ls) == ls

\* cleanNoise that returns the kept lines in reverse order
cleanNoiseReversed(ls) ==
    LET kept == SelectSeq(ls, KeepLine)
    IN  [k \in 1..Len(kept) |-> kept[Len(kept) + 1 - k]]

\* cleanNoise(lines): lines.filter(...)
cleanNoise(ls) == SelectSeq(ls, KeepLine)

\* The lines the filter is run on: page numbers (one not trimmed), the
\* publication name, a volume header, a footer, category captions, and lines
\* that only resemble them.
NoiseLines ==
    {"42", " 7 ", "Boletim do Trabalho e Emprego, n.º 5", "n.º 5 | Vol. 91",
     "BTE 5 | 12", "PRIVADO", "Arbitragem obrigatória", "Artigo 1.º",
     "privado | Vol. 2"}

NoiseInputs == SeqsUpTo(NoiseLines, MaxNoiseLines)

NoiseStart ==
    /\ noiseIn \in NoiseInputs
    /\ noiseOut = <<>>
    /\ noiseOut2 = <<>>
    /\ noisePc = "raw"

NoiseIdle ==
    /\ noiseIn = <<>>
    /\ noiseOut = <<>>
    /\ noiseOut2 = <<>>
    /\ noisePc = "idle"

\* this.cleanNoise(rawLines)
FilterOnce ==
    /\ UNCHANGED notNoise
    /\ noisePc = "raw"
    /\ noiseOut' = cleanNoise(noiseIn)
    /\ noisePc' = "once"
    /\ UNCHANGED <<noiseIn, noiseOut2>>

\* cleanNoise on the lines it returned
FilterAgain ==
    /\ UNCHANGED notNoise
    /\ noisePc = "once"
    /\ noiseOut2' = cleanNoise(noiseOut)
    /\ noisePc' = "twice"
    /\ UNCHANGED <<noiseIn, noiseOut>>

NoiseStep == FilterOnce \/ FilterAgain

(***************************************************************************)
(* parse (parser.ts 441-455) from the raw lines on: cleanNoise, buildTree  *)
(* on what it returns, cleanTreeText.  extractGlobalMetadata, called in    *)
(* between, reads rawLines and file and writes nothing the other steps     *)
(* read; it is run on its own above.                                       *)
(***************************************************************************)
\* parse has its rawLines and has called neither cleanNoise nor buildTree
ParseStart ==
    /\ noiseIn \in ParseInputs
    /\ noiseOut = <<>>
    /\ noiseOut2 = <<>>
    /\ noisePc = "raw"
    /\ TreeStart

\* const rootNode = this.buildTree(cleanLines)
ParseBuildTree ==
    /\ pc = "start"
    /\ noisePc = "once"
    /\ lines' = noiseOut
    /\ pc' = "for"
    /\ UNCHANGED <<i, stack, nodes, headerText, matchedType, threw, origin>>
    /\ UNCHANGED notTree

ParseStep ==
    \/ FilterOnce
    \/ ParseBuildTree
    \/ ForHeader
    \/ ForPreambulo
    \/ WhileMerge
    \/ WhileExit
    \/ ForBody
    \/ ForExit
    \/ CleanTree
(***************************************************************************)
(* Line Reconstructor: extractTextFromPdf (parser.ts 141-196).             *)
(***************************************************************************)
Abs(n) == IF n < 0 THEN 0 - n ELSE n

SortTolerance == 2

\* the comparator of pageItems.sort
Compare(a, b) ==
    IF Abs(a.y - b.y) > SortTolerance THEN b.y - a.y ELSE a.x - b.x

\* the permutations of 1..n, as sequences
Perms(n) == {p \in [1..n -> 1..n] : \A j, k \in 1..n : p[j] = p[k] => j = k}

\* the sequence q taken in the order p
Permuted(q, p) == [k \in 1..Len(q) |-> q[p[k]]]

\* Array.prototype.sort requires of its comparator, on the values sorted, that
\* it is a consistent comparator: a < b exactly when b > a, and both < and
\* "compares equal" are transitive
IsConsistent(q) ==
    LET n == Len(q)
    IN  /\ \A j, k \in 1..n :
               /\ Compare(q[j], q[k]) < 0 <=> Compare(q[k], q[j]) > 0
               /\ Compare(q[j], q[k]) = 0 <=> Compare(q[k], q[j]) = 0
        /\ \A j, k, l \in 1..n :
               /\ (Compare(q[j], q[k]) < 0 /\ Compare(q[k], q[l]) < 0)
                      => Compare(q[j], q[l]) < 0
               /\ (Compare(q[j], q[k]) = 0 /\ Compare(q[k], q[l]) = 0)
                      => Compare(q[j], q[l]) = 0

\* the order p lists the elements of q ascending by the comparator, equal
\* elements in their order in q
IsStableOrder(q, p) ==
    \A j, k \in 1..Len(q) :
        j < k => \/ Compare(q[p[j]], q[p[k]]) < 0
                 \/ Compare(q[p[j]], q[p[k]]) = 0 /\ p[j] < p[k]

\* pageItems.sort(comparator): a stable sort when the comparator is consistent
\* on the items, and otherwise an order the implementation chooses
SortOutcomes(q) ==
    IF IsConsistent(q)
    THEN {Permuted(q, p) : p \in {r \in Perms(Len(q)) : IsStableOrder(q, r)}}
    ELSE {Permuted(q, p) : p \in Perms(Len(q))}

GroupTolerance == 5

NoLastY == -1

\* lines.push({ text: currentLine.trim(), y: lastY, isBold: false, page: i })
\* under if (currentLine.trim())
PushLine(acc, currentLine, lastY, page) ==
    IF Truthy(Trim(currentLine))
    THEN Append(acc, [text |-> Trim(currentLine), y |-> lastY, page |-> page])
    ELSE acc

RECURSIVE GroupFrom(_, _, _, _, _, _)
\* the grouping loop from item k on, and the push after it; acc is what the
\* loop has pushed so far
GroupFrom(items, k, currentLine, lastY, acc, page) ==
    IF k > Len(items)
    THEN PushLine(acc, currentLine, lastY, page)
    ELSE LET item == items[k]
             break == lastY # NoLastY /\ Abs(item.y - lastY) > GroupTolerance
         IN  GroupFrom(items, k + 1,
                       (IF break THEN "" ELSE currentLine) \o item.text \o " ",
                       item.y,
                       IF break THEN PushLine(acc, currentLine, lastY, page) ELSE acc,
                       page)

\* the lines one page adds to the array lines
GroupPage(items, page) == GroupFrom(items, 1, "", NoLastY, <<>>, page)

\* The positioned runs: two columns; rows 10, 8 and 6, each within the sort
\* tolerance of the next and the first within the group tolerance of the third;
\* and rows -1 and -8, far from these and from each other.
RunXs == {1, 2}

RunYs == {10, 8, 6, -1, -8}

\* the text of the k-th run of a page, as the document first gives it
RunLabel(k) == SubSeq("abcdefgh", k, k)

Runs == [x : RunXs, y : RunYs]

\* the pages: up to n runs at different positions, the k-th with the k-th
\* label, none with hasEOL set
PagesUpTo(n) ==
    {[k \in 1..Len(q) |->
         [text |-> RunLabel(k), x |-> q[k].x, y |-> q[k].y, hasEol |-> FALSE]] :
        q \in {r \in SeqsUpTo(Runs, n) : \A j, k \in 1..Len(r) : r[j] = r[k] => j = k}}

\* the same pages, and those of them with hasEOL set on the run the document
\* gives first
WithEol(ps) ==
    ps \cup {[p EXCEPT ![1].hasEol = TRUE] : p \in ps \ {<<>>}}

PageInputs == WithEol(PagesUpTo(MaxRuns))

\* the documents: one page of at most MaxRuns runs, or a page of fewer and a
\* second page of one run
DocInputs ==
    {<<p>> : p \in PageInputs}
        \cup {<<p, q>> : p \in WithEol(PagesUpTo(MaxRuns - 1)), q \in PagesUpTo(1) \ {<<>>}}

\* the documents whose pages hold the same runs as those of d, in any order
Reorderings(d) ==
    IF Len(d) = 1
    THEN {<<Permuted(d[1], p)>> : p \in Perms(Len(d[1]))}
    ELSE {<<Permuted(d[1], p), Permuted(d[2], r)>> :
              p \in Perms(Len(d[1])), r \in Perms(Len(d[2]))}

ExtractStart ==
    /\ pages \in DocInputs
    /\ pageNo = 1
    /\ pageItems = <<>>
    /\ textLines = <<>>
    /\ extractPc = "page"
    /\ call = 1
    /\ firstLines = <<>>

ExtractIdle ==
    /\ pages = <<>>
    /\ pageNo = 1
    /\ pageItems = <<>>
    /\ textLines = <<>>
    /\ extractPc = "idle"
    /\ call = 1
    /\ firstLines = <<>>

\* the page loop's body up to the sort: content.items.map, pageItems.sort
PageSort ==
    /\ UNCHANGED notExtract
    /\ extractPc = "page"
    /\ pageNo <= Len(pages)
    /\ pageItems' \in SortOutcomes(pages[pageNo])
    /\ extractPc' = "group"
    /\ UNCHANGED <<pages, pageNo, textLines, call, firstLines>>

\* the grouping loop of the page, the last push, and i++
PageGroup ==
    /\ UNCHANGED notExtract
    /\ extractPc = "group"
    /\ textLines' = textLines \o GroupPage(pageItems, pageNo)
    /\ pageNo' = pageNo + 1
    /\ extractPc' = "page"
    /\ UNCHANGED <<pages, pageItems, call, firstLines>>

\* return lines
ExtractReturn ==
    /\ UNCHANGED notExtract
    /\ extractPc = "page"
    /\ pageNo > Len(pages)
    /\ extractPc' = "returned"
    /\ UNCHANGED <<pages, pageNo, pageItems, textLines, call, firstLines>>

\* a second extractTextFromPdf, of a document that gives the same runs of
\* every page in another order
ExtractAgain ==
    /\ UNCHANGED notExtract
    /\ extractPc = "returned"
    /\ call = 1
    /\ firstLines' = textLines
    /\ pages' \in Reorderings(pages)
    /\ pageNo' = 1
    /\ pageItems' = <<>>
    /\ textLines' = <<>>
    /\ extractPc' = "page"
    /\ call' = 2

ExtractStep ==
    \/ PageSort
    \/ PageGroup
    \/ ExtractReturn
    \/ ExtractAgain

(***************************************************************************)
(* Date conversion: convertDateToISO (parser.ts 48-80).                    *)
(***************************************************************************)
\* the lower-case keys map inherits from Object.prototype, as a template
\* literal prints their values
InheritedProps ==
    [k \in {"constructor", "__proto__"} |->
        IF k = "constructor" THEN "function Object() { [native code] }"
        ELSE "[object Object]"]

\* map[p]
MapGet(key) ==
    IF key \in DOMAIN MonthMap THEN MonthMap[key]
    ELSE IF key \in DOMAIN InheritedProps THEN InheritedProps[key]
    ELSE Undefined

RECURSIVE StripDe(_)
\* .replace(/\s+de\s+/g, ' ')
StripDe(s) ==
    IF s = "" THEN ""
    ELSE LET a == SkipSpaces(s, 1)
         IN  IF a > 1 /\ MatchAt(s, a, "de") /\ IsSpace(Char(s, a + 2))
             THEN " " \o StripDe(SubSeq(s, SkipSpaces(s, a + 2), Len(s)))
             ELSE SubSeq(s, 1, 1) \o StripDe(SubSeq(s, 2, Len(s)))

RECURSIVE SkipNonSpaces(_, _)
\* the index of the first \s at or after index k, or Len(s) + 1
SkipNonSpaces(s, k) ==
    IF k <= Len(s) /\ ~IsSpace(Char(s, k)) THEN SkipNonSpaces(s, k + 1) ELSE k

RECURSIVE SplitSpaces(_)
\* .split(/\s+/)
SplitSpaces(s) ==
    LET k == SkipNonSpaces(s, 1)
    IN  IF k > Len(s) THEN <<s>>
        ELSE <<SubSeq(s, 1, k - 1)>> \o SplitSpaces(SubSeq(s, SkipSpaces(s, k), Len(s)))

\* parts[k], k counted from 0
PartAt(parts, k) == IF k >= 0 /\ k < Len(parts) THEN parts[k + 1] ELSE Undefined

\* parts.findIndex(p => map[p])
FindMonthIndex(parts) ==
    LET hits == {k \in 0..(Len(parts) - 1) : Truthy(MapGet(parts[k + 1]))}
    IN  IF hits = {} THEN -1 ELSE CHOOSE k \in hits : \A h \in hits : k <= h

\* the reassignment also when the month is the first part
ReassignsFromZero(monthIndex, n) == monthIndex >= 0 /\ monthIndex + 1 < n

\* if (monthIndex > 0 && monthIndex + 1 < parts.length)
Reassigns(monthIndex, n) == monthIndex > 0 /\ monthIndex + 1 < n

\* day.padStart(2, '0')
PadStart2(d) == IF Len(d) >= 2 THEN d ELSE IF Len(d) = 1 THEN "0" \o d ELSE "00"

MinParts == 3

\* convertDateToISO once cleanDate is split into parts
ConvertParts(parts, now) ==
    LET monthIndex == FindMonthIndex(parts)
        moved == Reassigns(monthIndex, Len(parts))
        monthName == IF moved THEN PartAt(parts, monthIndex) ELSE PartAt(parts, 1)
        day0 == IF moved THEN PartAt(parts, monthIndex - 1) ELSE PartAt(parts, 0)
        year == IF moved THEN PartAt(parts, monthIndex + 1) ELSE PartAt(parts, 2)
        month == MapGet(monthName)
    IN  IF Len(parts) < MinParts THEN [threw |-> FALSE, value |-> now]
        ELSE IF day0 = Undefined THEN [threw |-> TRUE, value |-> Undefined]
        ELSE IF /\ Truthy(PadStart2(day0))
                /\ Truthy(month)
                /\ Truthy(year)
                /\ Len(year) = YearLength
             THEN [threw |-> FALSE, value |-> year \o "-" \o month \o "-" \o PadStart2(day0)]
             ELSE [threw |-> FALSE, value |-> now]

\* convertDateToISO(ptDate), now being what new Date() gives as the date:
\* [threw, value]
convertDateToISO(ptDate, now) ==
    CHOOSE r \in {ConvertParts(parts, now) :
                     parts \in {SplitSpaces(StripDe(ToLower(ptDate)))}} : TRUE

(***************************************************************************)
(* Metadata Extractor: extractGlobalMetadata (parser.ts 239-283).          *)
(***************************************************************************)
NoHeader == [matched |-> FALSE]

\* headerLineRegex after ^(.*?) with a comma where the first bar is
HeaderTailPatternComma ==
    <<"\\s*", ",", "\\s*", "n.º", "\\s*", "\\d+", "\\s*", "|", "\\s*", "Vol.", "\\s*", "\\d+">>

\* headerLineRegex after ^(.*?)
HeaderTailPattern ==
    <<"\\s*", "|", "\\s*", "n.º", "\\s*", "\\d+", "\\s*", "|", "\\s*", "Vol.", "\\s*", "\\d+">>

\* \s*\|\s*n\.º\s*(\d+)\s*\|\s*Vol\.\s*(\d+) at index k of txt
HeaderTailAt(txt, k) ==
    LET m == MatchFrom(txt, k, HeaderTailPattern, 1)
    IN  IF m[13] > 0
        THEN [matched |-> TRUE, number |-> SubSeq(txt, m[6], m[7] - 1),
              volume |-> SubSeq(txt, m[12], m[13] - 1)]
        ELSE NoHeader

\* txt.match(headerLineRegex): (.*?) is the shortest prefix, free of line
\* breaks, after which the rest of the pattern matches
HeaderMatch(txt) ==
    LET ps == {n \in 0..Len(txt) :
                  /\ \A j \in 1..n : ~IsLineBreak(Char(txt, j))
                  /\ HeaderTailAt(txt, n + 1).matched}
    IN  IF ps = {} THEN NoHeader
        ELSE LET n == CHOOSE x \in ps : \A y \in ps : x <= y
                 tail == HeaderTailAt(txt, n + 1)
             IN  [matched |-> TRUE, prefix |-> SubSeq(txt, 1, n),
                  number |-> tail.number, volume |-> tail.volume]

\* dateRegex
DatePattern ==
    <<"\\d{1,2}", "\\s+", "(?:de\\s+)?", "(months)", "\\s+", "(?:de\\s+)?", "\\d{4}">>

\* dateRegex at index s of txt: the index after the match, or 0
DateEndAt(txt, s) == MatchEnd(txt, s, DatePattern)

\* txt.match(dateRegex): matchDate[0] of the leftmost match, "" when null
DateMatch(txt) ==
    LET starts == {k \in 1..Len(txt) : DateEndAt(txt, k) > 0}
    IN  IF starts = {} THEN ""
        ELSE LET k == CHOOSE x \in starts : \A y \in starts : x <= y
             IN  SubSeq(txt, k, DateEndAt(txt, k) - 1)

MetaWindow == 10

\* the scan over all the lines
ScanEndOfLines(ls) == Len(ls)

\* Math.min(lines.length, 10)
ScanEnd(ls) == IF Len(ls) < MetaWindow THEN Len(ls) ELSE MetaWindow

\* The lines the scan meets: headers with a date, with a day the pattern of
\* the date does not cover, with a month first, with too few words and with
\* nothing before the bar; bare dates; a line with the number and the volume
\* but no bar before the number; a line with no signal.
PlainLine == "Texto sem data"

MetaLines ==
    {"15 de março de 2024 | n.º 5 | Vol. 2",
     "1.º de janeiro de 2024 | n.º 1 | Vol. 91",
     "Janeiro 2024 Lisboa | n.º 4 | Vol. 91",
     "de 2024 | N.º 3 | vol. 4",
     "| n.º 9 | Vol. 1",
     "Lisboa, 8 DE dezembro 2023",
     "22 de maio de 2024",
     "Boletim do Trabalho e Emprego, n.º 5 | Vol. 2",
     PlainLine}

\* what the two patterns give on the trimmed text of each line
MetaFacts ==
    [l \in MetaLines |->
        CHOOSE r \in {[header |-> HeaderMatch(txt), date |-> DateMatch(txt)] :
                         txt \in {Trim(l)}} : TRUE]

\* k lines that carry no signal
RECURSIVE Padding(_)
Padding(k) == IF k = 0 THEN <<>> ELSE Append(Padding(k - 1), PlainLine)

\* the number of lines before the lines of interest: none, or as many as put
\* the first of them last in the window and the second outside it
PadLengths == {0, MetaWindow - 1}

MetaInputs ==
    {Padding(k) \o q : k \in PadLengths, q \in SeqsUpTo(MetaLines, MaxMetaLines)}

\* the value of firstMeta before the first invocation has returned
NoRecord == [date |-> "", reference |-> "", threw |-> FALSE]

FileYears == {"2024", "1999"}

FileNumbers == {"12"}

Todays == {"2026-11-06", "1999-01-01"}

MetaStart ==
    /\ metaLines \in MetaInputs
    /\ fileYear \in FileYears
    /\ fileNumber \in FileNumbers
    /\ today \in Todays
    /\ metaI = 0
    /\ foundDateText = ""
    /\ foundNumber = fileNumber
    /\ foundVolume = ""
    /\ dateStr = ""
    /\ fullReference = ""
    /\ metaPc = "scan"
    /\ metaThrew = FALSE
    /\ metaCall = 1
    /\ firstMeta = NoRecord

MetaIdle ==
    /\ metaLines = <<>>
    /\ fileYear = ""
    /\ fileNumber = ""
    /\ today = ""
    /\ metaI = 0
    /\ foundDateText = ""
    /\ foundNumber = ""
    /\ foundVolume = ""
    /\ dateStr = ""
    /\ fullReference = ""
    /\ metaPc = "idle"
    /\ metaThrew = FALSE
    /\ metaCall = 1
    /\ firstMeta = NoRecord

\* the iteration on a header line with a header that has nothing before the
\* bar leaving the date text as it is
ScanHeaderKeepsDate ==
    /\ UNCHANGED notMeta
    /\ metaPc = "scan"
    /\ metaI < ScanEnd(metaLines)
    /\ MetaFacts[metaLines[metaI + 1]].header.matched
    /\ LET headerMatch == MetaFacts[metaLines[metaI + 1]].header
       IN  /\ foundDateText' = IF Trim(headerMatch.prefix) = "" THEN foundDateText
                                ELSE Trim(headerMatch.prefix)
           /\ foundNumber' = headerMatch.number
           /\ foundVolume' = headerMatch.volume
    /\ metaPc' = "assemble"
    /\ UNCHANGED <<metaLines, fileYear, fileNumber, today, metaI, dateStr,
                   fullReference, metaThrew, metaCall, firstMeta>>

\* an iteration of the scan on a line the header pattern matches: break
ScanHeader ==
    /\ UNCHANGED notMeta
    /\ metaPc = "scan"
    /\ metaI < ScanEnd(metaLines)
    /\ MetaFacts[metaLines[metaI + 1]].header.matched
    /\ LET headerMatch == MetaFacts[metaLines[metaI + 1]].header
       IN  /\ foundDateText' = Trim(headerMatch.prefix)
           /\ foundNumber' = headerMatch.number
           /\ foundVolume' = headerMatch.volume
    /\ metaPc' = "assemble"
    /\ UNCHANGED <<metaLines, fileYear, fileNumber, today, metaI, dateStr,
                   fullReference, metaThrew, metaCall, firstMeta>>

\* an iteration of the scan on any other line: the first bare date is kept
ScanDate ==
    /\ UNCHANGED notMeta
    /\ metaPc = "scan"
    /\ metaI < ScanEnd(metaLines)
    /\ ~MetaFacts[metaLines[metaI + 1]].header.matched
    /\ foundDateText' =
           IF ~Truthy(foundDateText) /\ MetaFacts[metaLines[metaI + 1]].date # ""
           THEN MetaFacts[metaLines[metaI + 1]].date
           ELSE foundDateText
    /\ metaI' = metaI + 1
    /\ UNCHANGED <<metaLines, fileYear, fileNumber, today, foundNumber, foundVolume,
                   dateStr, fullReference, metaPc, metaThrew, metaCall, firstMeta>>

\* the scan has passed the last line of the window
ScanExit ==
    /\ UNCHANGED notMeta
    /\ metaPc = "scan"
    /\ metaI >= ScanEnd(metaLines)
    /\ metaPc' = "assemble"
    /\ UNCHANGED <<metaLines, fileYear, fileNumber, today, metaI, foundDateText,
                   foundNumber, foundVolume, dateStr, fullReference, metaThrew,
                   metaCall, firstMeta>>

\* datePart with the year of the run in place of the declared year
DatePartOfRun(found, year) ==
    IF Truthy(found)
    THEN ", " \o (IF StartsWith(ToLower(found), "de ") THEN "" ELSE "de ") \o found
    ELSE ", de " \o SubSeq(today, 1, YearLength)

\* datePart
DatePart(found, year) ==
    IF Truthy(found)
    THEN ", " \o (IF StartsWith(ToLower(found), "de ") THEN "" ELSE "de ") \o found
    ELSE ", de " \o year

\* volPart without the test of foundVolume
VolPartAlways(volume) == ", Vol. " \o volume

\* volPart
VolPart(volume) == IF Truthy(volume) THEN ", Vol. " \o volume ELSE ""

\* the date, the reference, and the return
Assemble ==
    /\ UNCHANGED notMeta
    /\ metaPc = "assemble"
    /\ LET converted == IF Truthy(foundDateText)
                        THEN convertDateToISO(foundDateText, today)
                        ELSE [threw |-> FALSE, value |-> fileYear \o "-01-01"]
       IN  IF converted.threw
           THEN /\ metaThrew' = TRUE
                /\ UNCHANGED <<dateStr, fullReference>>
           ELSE /\ dateStr' = converted.value
                /\ fullReference' =
                       "BTE n.º " \o foundNumber \o VolPart(foundVolume)
                           \o DatePart(foundDateText, fileYear)
                /\ UNCHANGED metaThrew
    /\ metaPc' = "done"
    /\ UNCHANGED <<metaLines, fileYear, fileNumber, today, metaI, foundDateText,
                   foundNumber, foundVolume, metaCall, firstMeta>>

\* a second invocation on the same lines and the same file, on any day: its
\* locals are declared anew (parser.ts 240-241, 247-249), nothing of the first
\* invocation is left but what it returned, kept here as history
MetaAgain ==
    /\ UNCHANGED notMeta
    /\ metaPc = "done"
    /\ metaCall = 1
    /\ firstMeta' = [date |-> dateStr, reference |-> fullReference, threw |-> metaThrew]
    /\ today' \in Todays
    /\ metaI' = 0
    /\ foundDateText' = ""
    /\ foundNumber' = fileNumber
    /\ foundVolume' = ""
    /\ dateStr' = ""
    /\ fullReference' = ""
    /\ metaThrew' = FALSE
    /\ metaPc' = "scan"
    /\ metaCall' = 2
    /\ UNCHANGED <<metaLines, fileYear, fileNumber>>

MetaStep ==
    \/ ScanHeader
    \/ ScanDate
    \/ ScanExit
    \/ Assemble
    \/ MetaAgain

(***************************************************************************)
(* main: the loop over the documents the crawler yields (index.ts 101-160). *)
(* What becomes of a document is given with it: the step of the try block  *)
(* that throws for it, if any.                                             *)
(***************************************************************************)
\* ensureDirectoryExists, parser.parse, BteDocumentRootSchema.parse or
\* fs.writeFileSync throws, or none does
Fates == {"mkdir", "parse", "schema", "write", "ok"}

\* targetDir of two documents: OUTPUT_DIR/<series>/<year>/<number>
TargetDirs == {"output/1_Serie/2024/1", "output/1_Serie/2024/2"}

DocKinds == [dir : TargetDirs, fate : Fates]

StreamInputs == SeqsUpTo(DocKinds, MaxDocs)

\* the document of the current iteration
Doc == stream[docNo]

MainStart ==
    /\ stream \in StreamInputs
    /\ docNo = 0
    /\ mainPc = "loop"
    /\ totalDocs = 0
    /\ successCount = 0
    /\ errorCount = 0
    /\ outputs = {}
    /\ parsedDocs = {}
    /\ validDocs = {}
    /\ savedDocs = {}

MainIdle ==
    /\ stream = <<>>
    /\ docNo = 0
    /\ mainPc = "idle"
    /\ totalDocs = 0
    /\ successCount = 0
    /\ errorCount = 0
    /\ outputs = {}
    /\ parsedDocs = {}
    /\ validDocs = {}
    /\ savedDocs = {}

\* where the try block goes after a step: to the catch clause when the step
\* throws for this document, to the next step otherwise
AfterStep(fate, step, next) == IF fate = step THEN "catch" ELSE next

\* for await (const doc of documentStream): the next document; totalDocs++
MainTake ==
    /\ UNCHANGED notMain
    /\ mainPc = "loop"
    /\ docNo < Len(stream)
    /\ docNo' = docNo + 1
    /\ totalDocs' = totalDocs + 1
    /\ mainPc' = "mkdir"
    /\ UNCHANGED <<stream, successCount, errorCount, outputs, parsedDocs, validDocs,
                   savedDocs>>

\* targetDir, ensureDirectoryExists(targetDir)
MainMkdir ==
    /\ UNCHANGED notMain
    /\ mainPc = "mkdir"
    /\ mainPc' = AfterStep(Doc.fate, "mkdir", "parse")
    /\ UNCHANGED <<stream, docNo, totalDocs, successCount, errorCount, outputs,
                   parsedDocs, validDocs, savedDocs>>

\* const rawJsonStructure = await parser.parse(doc)
MainParse ==
    /\ UNCHANGED notMain
    /\ mainPc = "parse"
    /\ mainPc' = AfterStep(Doc.fate, "parse", "validate")
    /\ parsedDocs' = IF Doc.fate = "parse" THEN parsedDocs ELSE parsedDocs \cup {docNo}
    /\ UNCHANGED <<stream, docNo, totalDocs, successCount, errorCount, outputs,
                   validDocs, savedDocs>>

\* the try block without the validation step: on to the save in any case
AfterValidateUnchecked(fate) == "save"

\* where the try block goes after BteDocumentRootSchema.parse
AfterValidate(fate) == AfterStep(fate, "schema", "save")

\* const validatedData = BteDocumentRootSchema.parse(rawJsonStructure)
MainValidate ==
    /\ UNCHANGED notMain
    /\ mainPc = "validate"
    /\ mainPc' = AfterValidate(Doc.fate)
    /\ validDocs' = IF Doc.fate = "schema" THEN validDocs ELSE validDocs \cup {docNo}
    /\ UNCHANGED <<stream, docNo, totalDocs, successCount, errorCount, outputs,
                   parsedDocs, savedDocs>>

\* fs.writeFileSync(filePath, ...), and when it returns: doc.buffer = null,
\* successCount++, the progress line, and back to the head of the loop.  A
\* write that throws may or may not leave a file behind.
MainSave ==
    /\ UNCHANGED notMain
    /\ mainPc = "save"
    /\ savedDocs' = savedDocs \cup {docNo}
    /\ IF Doc.fate = "write"
       THEN /\ mainPc' = "catch"
            /\ outputs' \in {outputs, outputs \cup {Doc.dir}}
            /\ UNCHANGED successCount
       ELSE /\ mainPc' = "loop"
            /\ outputs' = outputs \cup {Doc.dir}
            /\ successCount' = successCount + 1
    /\ UNCHANGED <<stream, docNo, totalDocs, errorCount, parsedDocs, validDocs>>

\* the catch clause that leaves errorCount as it is
MainCatchUncounted ==
    /\ UNCHANGED notMain
    /\ mainPc = "catch"
    /\ mainPc' = "loop"
    /\ UNCHANGED <<stream, docNo, totalDocs, successCount, errorCount, outputs,
                   parsedDocs, validDocs, savedDocs>>

\* catch (error): errorCount++, the report of the error, and back to the
\* head of the loop
MainCatch ==
    /\ UNCHANGED notMain
    /\ mainPc = "catch"
    /\ errorCount' = errorCount + 1
    /\ mainPc' = "loop"
    /\ UNCHANGED <<stream, docNo, totalDocs, successCount, outputs, parsedDocs,
                   validDocs, savedDocs>>

\* the stream is done: the final report
MainReport ==
    /\ UNCHANGED notMain
    /\ mainPc = "loop"
    /\ docNo >= Len(stream)
    /\ mainPc' = "report"
    /\ UNCHANGED <<stream, docNo, totalDocs, successCount, errorCount, outputs,
                   parsedDocs, validDocs, savedDocs>>

MainStep ==
    \/ MainTake
    \/ MainMkdir
    \/ MainParse
    \/ MainValidate
    \/ MainSave
    \/ MainCatch
    \/ MainReport

(***************************************************************************)
(* The crawler (crawler.ts): the discovery of the years on the two form    *)
(* pages, then the scan of the document numbers of each year.              *)
(***************************************************************************)
\* DEFAULT_CONFIG.FORM_URL_ISSUE, FORM_URL_OFFPRINT
FORM_URL_ISSUE == "bte_consulta_n_anteriores.php"

FORM_URL_OFFPRINT == "sep_consulta_n_anteriores.php"

FormUrls == {FORM_URL_ISSUE, FORM_URL_OFFPRINT}

\* option elements: the text between the tags and the value attribute ("" when
\* the element has none)
OptionKinds ==
    {[text |-> " 2024 ", value |-> "2024"],
     [text |-> "2023", value |-> ""],
     [text |-> "Outra coisa", value |-> ""]}

YearOpt == [text |-> "2023", value |-> ""]

OldYearOpt == [text |-> "\n1999", value |-> "a1999"]

OtherOpt == [text |-> "Outra coisa", value |-> ""]

\* selects whose share of year options is 25%, 30% and 40%
SelectExamples ==
    {<<OtherOpt, OtherOpt, OtherOpt, YearOpt>>,
     <<OtherOpt, OtherOpt, YearOpt, OtherOpt, OldYearOpt, OtherOpt, OtherOpt, YearOpt,
       OtherOpt, OtherOpt>>,
     <<OtherOpt, OldYearOpt, YearOpt, OtherOpt, OldYearOpt, OtherOpt, OtherOpt, YearOpt,
       OtherOpt, OtherOpt>>}

SelectInputs == SeqsUpTo(OptionKinds, MaxOptions)

\* a response: the request failed, or a page with its select elements in
\* document order
FailedPage == [ok |-> FALSE, selects |-> <<>>]

\* the pages of at most two selects that hold at most MaxOptions options, and
\* those made of the examples
HtmlInputs ==
    {FailedPage}
        \cup {[ok |-> TRUE, selects |-> q] :
                q \in {<<>>} \cup {<<a>> : a \in SelectInputs \cup SelectExamples}
                        \cup {<<a, b>> : a \in SelectExamples, b \in SelectExamples}
                        \cup {r \in {<<a, b>> : a \in SelectInputs, b \in SelectInputs} :
                                 Len(r[1]) + Len(r[2]) <= MaxOptions}}

\* txt.match(/^(19|20)\d{2}$/)
IsYearText(txt) ==
    /\ Len(txt) = 4
    /\ SubSeq(txt, 1, 2) \in {"19", "20"}
    /\ IsDigit(SubSeq(txt, 3, 3))
    /\ IsDigit(SubSeq(txt, 4, 4))

RECURSIVE parseInt(_)
\* parseInt of a string of digits
parseInt(txt) ==
    IF txt = "" THEN 0
    ELSE 10 * parseInt(SubSeq(txt, 1, Len(txt) - 1))
            + (CHOOSE d \in 0..9 :
                   SubSeq("0123456789", d + 1, d + 1) = SubSeq(txt, Len(txt), Len(txt)))

RECURSIVE YearOptionsOf(_)
\* opts.each: the options whose trimmed text is a year, as {value, label}
YearOptionsOf(opts) ==
    IF opts = <<>> THEN <<>>
    ELSE LET txt == Trim(Head(opts).text)
             val == IF Head(opts).value # "" THEN Head(opts).value ELSE txt
         IN  IF IsYearText(txt)
             THEN <<[value |-> val, label |-> txt]>> \o YearOptionsOf(Tail(opts))
             ELSE YearOptionsOf(Tail(opts))

RECURSIVE SortDescending(_)
\* yearOptions.sort((a, b) => parseInt(b.label) - parseInt(a.label)): a stable
\* sort, each option goes behind those of the same or a later year
SortDescending(q) ==
    IF q = <<>> THEN <<>>
    ELSE LET sorted == SortDescending(SubSeq(q, 1, Len(q) - 1))
             x == q[Len(q)]
             before == {k \in 1..Len(sorted) : parseInt(sorted[k].label) >= parseInt(x.label)}
             n == Cardinality(before)
         IN  SubSeq(sorted, 1, n) \o <<x>> \o SubSeq(sorted, n + 1, Len(sorted))

\* the test with the share met as well as exceeded
EnoughHitsOrEqual(hits, n) == 10 * hits >= 3 * n

\* hits > (opts.length * 0.3)
EnoughHits(hits, n) == 10 * hits > 3 * n

\* extractYearDropdownOptions: the sorted year options, or Undefined (null)
extractYearDropdownOptions(opts) ==
    LET yearOptions == YearOptionsOf(opts)
    IN  IF EnoughHits(Len(yearOptions), Len(opts))
        THEN SortDescending(yearOptions)
        ELSE Undefined

RECURSIVE FirstYearSelect(_)
\* the loop over the selects of the page: the options of the first select
\* that extractYearDropdownOptions accepts, [] when there is none
FirstYearSelect(selects) ==
    IF selects = <<>> THEN <<>>
    ELSE LET options == CHOOSE r \in {extractYearDropdownOptions(o) : o \in {Head(selects)}} : TRUE
         IN  IF options # Undefined THEN options ELSE FirstYearSelect(Tail(selects))

\* getYearsFromPage once the request is answered; the catch clause gives []
getYearsFromPage(page) == IF page.ok THEN FirstYearSelect(page.selects) ELSE <<>>

\* limit && limit > 0 ? limit : Infinity
Infinity == <<>>

MaxLimitOf(lim) == IF lim # <<>> /\ lim[1] > 0 THEN lim ELSE Infinity

\* the test that lets one more document through
limitExceeded == maxLimit # Infinity /\ totalCollected > maxLimit[1]

\* limitReached(): totalCollected >= maxLimit
limitReached == maxLimit # Infinity /\ totalCollected >= maxLimit[1]

\* DEFAULT_CONFIG.MAX_CONSECUTIVE_FAILURES
MAX_CONSECUTIVE_FAILURES == 10

\* the years a form page offers, latest first
YearList ==
    <<[text |-> " 2024 ", value |-> "2024"], YearOpt, OldYearOpt,
      [text |-> "1998", value |-> ""]>>

\* the responses to the form requests of crawlAll: a failed request, or a
\* page whose one select holds the first k years
CrawlPages ==
    {FailedPage}
        \cup {[ok |-> TRUE, selects |-> <<SubSeq(YearList, 1, k)>>] :
                k \in 0..(IF MaxYears < Len(YearList) THEN MaxYears ELSE Len(YearList))}

\* the limit argument: omitted, or a number
Limits == {<<>>} \cup {<<n>> : n \in (-1)..MaxLimit}

\* what a download request comes to: a PDF, a 200 response of another
\* content type, or a failure (another status, a timeout)
Outcomes == {"pdf", "other", "error"}

\* the years loopYears is given for a type
YearsFor(type) == IF type = "issue" THEN issueYears ELSE offprintYears

CrawlIdle ==
    /\ entry = "" /\ crawlPc = "idle" /\ limit = <<>> /\ maxLimit = Infinity
    /\ totalCollected = 0 /\ pending = {} /\ formGets = [u \in FormUrls |-> 0]
    /\ html = FailedPage /\ htmlUrl = ""
    /\ issueYears = <<>> /\ offprintYears = <<>>
    /\ docType = "" /\ yearIdx = 0 /\ currentNum = 0 /\ consecutiveFailures = 0
    /\ yielded = 0 /\ downloads = 0 /\ lateRequest = FALSE

\* a new BteCrawler whose identifyYear is invoked
YearsStart ==
    /\ entry = "identifyYear" /\ crawlPc = "start" /\ limit = <<>> /\ maxLimit = Infinity
    /\ totalCollected = 0 /\ pending = {} /\ formGets = [u \in FormUrls |-> 0]
    /\ html = FailedPage /\ htmlUrl = ""
    /\ issueYears = <<>> /\ offprintYears = <<>>
    /\ docType = "" /\ yearIdx = 0 /\ currentNum = 0 /\ consecutiveFailures = 0
    /\ yielded = 0 /\ downloads = 0 /\ lateRequest = FALSE

\* identifyYear up to its await: Promise.all starts both getYearsFromPage,
\* each issues its GET
identifyYear ==
    /\ UNCHANGED notCrawl
    /\ crawlPc = "start" /\ entry = "identifyYear"
    /\ pending' = FormUrls
    /\ formGets' = [u \in FormUrls |-> formGets[u] + 1]
    /\ crawlPc' = "years"
    /\ UNCHANGED <<entry, limit, maxLimit, totalCollected, html, htmlUrl, issueYears,
                   offprintYears, docType, yearIdx, currentNum, consecutiveFailures,
                   yielded, downloads, lateRequest>>

\* one of the two requests is answered and its getYearsFromPage runs to its
\* return
YearsResponse ==
    /\ UNCHANGED notCrawl
    /\ crawlPc = "years"
    /\ \E url \in pending, page \in (IF entry = "crawlAll" THEN CrawlPages ELSE HtmlInputs) :
          /\ pending' = pending \ {url}
          /\ html' = page
          /\ htmlUrl' = url
          /\ IF url = FORM_URL_ISSUE
             THEN issueYears' = getYearsFromPage(page) /\ UNCHANGED offprintYears
             ELSE offprintYears' = getYearsFromPage(page) /\ UNCHANGED issueYears
    /\ UNCHANGED <<entry, crawlPc, limit, maxLimit, totalCollected, formGets, docType,
                   yearIdx, currentNum, consecutiveFailures, yielded, downloads,
                   lateRequest>>

\* both are answered: identifyYear returns { issueYears, offprintYears }
YearsReturned ==
    /\ UNCHANGED notCrawl
    /\ crawlPc = "years" /\ entry = "identifyYear"
    /\ pending = {}
    /\ crawlPc' = "returned"
    /\ html' = FailedPage /\ htmlUrl' = ""
    /\ UNCHANGED <<entry, limit, maxLimit, totalCollected, pending, formGets, issueYears,
                   offprintYears, docType, yearIdx, currentNum, consecutiveFailures,
                   yielded, downloads, lateRequest>>

YearsStep ==
    \/ identifyYear
    \/ YearsResponse
    \/ YearsReturned

\* a new BteCrawler whose crawlAll(limit) is invoked and consumed to its end
CrawlStart ==
    /\ entry = "crawlAll" /\ crawlPc = "start" /\ limit \in Limits /\ maxLimit = Infinity
    /\ totalCollected = 0 /\ pending = {} /\ formGets = [u \in FormUrls |-> 0]
    /\ html = FailedPage /\ htmlUrl = ""
    /\ issueYears = <<>> /\ offprintYears = <<>>
    /\ docType = "" /\ yearIdx = 0 /\ currentNum = 0 /\ consecutiveFailures = 0
    /\ yielded = 0 /\ downloads = 0 /\ lateRequest = FALSE

\* crawlAll up to the await of identifyYear: totalCollected = 0, maxLimit,
\* and the two form requests
crawlAll ==
    /\ UNCHANGED notCrawl
    /\ crawlPc = "start" /\ entry = "crawlAll"
    /\ totalCollected' = 0
    /\ maxLimit' = MaxLimitOf(limit)
    /\ pending' = FormUrls
    /\ formGets' = [u \in FormUrls |-> formGets[u] + 1]
    /\ crawlPc' = "years"
    /\ UNCHANGED <<entry, limit, html, htmlUrl, issueYears, offprintYears, docType,
                   yearIdx, currentNum, consecutiveFailures, yielded, downloads,
                   lateRequest>>

\* identifyYear has returned: crawlAll ends when neither page gave a year,
\* and turns to the issues otherwise
CrawlScope ==
    /\ UNCHANGED notCrawl
    /\ crawlPc = "years" /\ entry = "crawlAll"
    /\ pending = {}
    /\ html' = FailedPage /\ htmlUrl' = ""
    /\ IF Len(issueYears) = 0 /\ Len(offprintYears) = 0
       THEN crawlPc' = "done" /\ UNCHANGED docType
       ELSE crawlPc' = "type" /\ docType' = "issue"
    /\ UNCHANGED <<entry, limit, maxLimit, totalCollected, pending, formGets, issueYears,
                   offprintYears, yearIdx, currentNum, consecutiveFailures, yielded,
                   downloads, lateRequest>>

\* where crawlAll goes when it is done with a type
AfterType(type) == IF type = "issue" THEN "type" ELSE "done"

\* if (years.length > 0 && !this.limitReached()) yield* this.loopYears(type, years)
CrawlType ==
    /\ UNCHANGED notCrawl
    /\ crawlPc = "type"
    /\ IF Len(YearsFor(docType)) > 0 /\ ~limitReached
       THEN crawlPc' = "year" /\ yearIdx' = 0 /\ UNCHANGED docType
       ELSE /\ crawlPc' = AfterType(docType)
            /\ docType' = "offprint"
            /\ UNCHANGED yearIdx
    /\ UNCHANGED <<entry, limit, maxLimit, totalCollected, pending, formGets, html,
                   htmlUrl, issueYears, offprintYears, currentNum, consecutiveFailures,
                   yielded, downloads, lateRequest>>

\* loopYears: the next year unless the limit is reached, and the start of
\* identifyBoletins_separatas for it; the end of the loop otherwise
loopYears ==
    /\ UNCHANGED notCrawl
    /\ crawlPc = "year"
    /\ IF yearIdx < Len(YearsFor(docType)) /\ ~limitReached
       THEN /\ yearIdx' = yearIdx + 1
            /\ currentNum' = 1
            /\ consecutiveFailures' = 0
            /\ crawlPc' = "while"
            /\ UNCHANGED docType
       ELSE /\ crawlPc' = AfterType(docType)
            /\ docType' = "offprint"
            /\ UNCHANGED <<yearIdx, currentNum, consecutiveFailures>>
    /\ UNCHANGED <<entry, limit, maxLimit, totalCollected, pending, formGets, html,
                   htmlUrl, issueYears, offprintYears, yielded, downloads, lateRequest>>

\* the head of the while loop of identifyBoletins_separatas and fetchDocument
\* up to its request: the loop ends when the limit is reached or after
\* MAX_CONSECUTIVE_FAILURES failures in a row; fetchDocument asks for the one
\* URL of the number unless the limit is reached
WhileFetch ==
    /\ UNCHANGED notCrawl
    /\ crawlPc = "while"
    /\ IF limitReached \/ consecutiveFailures >= MAX_CONSECUTIVE_FAILURES
       THEN crawlPc' = "year" /\ UNCHANGED <<downloads, lateRequest>>
       ELSE /\ crawlPc' = "fetch"
            /\ downloads' = downloads + 1
            /\ lateRequest' = (lateRequest \/ (maxLimit # Infinity /\ totalCollected >= maxLimit[1]))
    /\ UNCHANGED <<entry, limit, maxLimit, totalCollected, pending, formGets, html,
                   htmlUrl, issueYears, offprintYears, docType, yearIdx, currentNum,
                   consecutiveFailures, yielded>>

\* FetchResponse with the failures counted on, a document found or not
FetchResponseNoReset ==
    /\ UNCHANGED notCrawl
    /\ crawlPc = "fetch"
    /\ \E outcome \in Outcomes :
          /\ outcome = "pdf" => currentNum <= MaxNum
          /\ IF outcome = "pdf"
             THEN /\ totalCollected' = totalCollected + 1
                  /\ yielded' = yielded + 1
                  /\ UNCHANGED consecutiveFailures
             ELSE /\ consecutiveFailures' = consecutiveFailures + 1
                  /\ UNCHANGED <<totalCollected, yielded>>
    /\ currentNum' = currentNum + 1
    /\ crawlPc' = "while"
    /\ UNCHANGED <<entry, limit, maxLimit, pending, formGets, html, htmlUrl, issueYears,
                   offprintYears, docType, yearIdx, downloads, lateRequest>>

\* the request is answered: a PDF is counted and yielded, and the scan goes
\* on when the consumer asks for the next document; anything else is a
\* failure.  The server holds no document beyond MaxNum.
FetchResponse ==
    /\ UNCHANGED notCrawl
    /\ crawlPc = "fetch"
    /\ \E outcome \in Outcomes :
          /\ outcome = "pdf" => currentNum <= MaxNum
          /\ IF outcome = "pdf"
             THEN /\ totalCollected' = totalCollected + 1
                  /\ consecutiveFailures' = 0
                  /\ yielded' = yielded + 1
             ELSE /\ consecutiveFailures' = consecutiveFailures + 1
                  /\ UNCHANGED <<totalCollected, yielded>>
    /\ currentNum' = currentNum + 1
    /\ crawlPc' = "while"
    /\ UNCHANGED <<entry, limit, maxLimit, pending, formGets, html, htmlUrl, issueYears,
                   offprintYears, docType, yearIdx, downloads, lateRequest>>

CrawlStep ==
    \/ crawlAll
    \/ YearsResponse
    \/ CrawlScope
    \/ CrawlType
    \/ loopYears
    \/ WhileFetch
    \/ FetchResponse

(***************************************************************************)
(* The specifications: each runs one component, the others are not run.    *)
(***************************************************************************)
InitTree == TreeStart /\ NormIdle /\ NoiseIdle /\ ExtractIdle /\ MetaIdle /\ MainIdle /\ CrawlIdle

NextTree == TreeStep

SpecTree == InitTree /\ [][NextTree]_vars

\* the tree pipeline under the scheduling of a sequential program: a step that
\* can be taken is taken
SpecTreeLive == SpecTree /\ WF_vars(NextTree)

InitNorm == NormStart /\ TreeIdle /\ NoiseIdle /\ ExtractIdle /\ MetaIdle /\ MainIdle /\ CrawlIdle

NextNorm == NormStep

SpecNorm == InitNorm /\ [][NextNorm]_vars

InitNoise == NoiseStart /\ TreeIdle /\ NormIdle /\ ExtractIdle /\ MetaIdle /\ MainIdle /\ CrawlIdle

NextNoise == NoiseStep

SpecNoise == InitNoise /\ [][NextNoise]_vars

InitExtract == ExtractStart /\ TreeIdle /\ NormIdle /\ NoiseIdle /\ MetaIdle /\ MainIdle /\ CrawlIdle

NextExtract == ExtractStep

SpecExtract == InitExtract /\ [][NextExtract]_vars

InitParse == ParseStart /\ NormIdle /\ ExtractIdle /\ MetaIdle /\ MainIdle /\ CrawlIdle

NextParse == ParseStep

SpecParse == InitParse /\ [][NextParse]_vars

InitMain ==
    MainStart /\ TreeIdle /\ NormIdle /\ NoiseIdle /\ ExtractIdle /\ MetaIdle /\ CrawlIdle

InitYears ==
    YearsStart /\ TreeIdle /\ NormIdle /\ NoiseIdle /\ ExtractIdle /\ MetaIdle /\ MainIdle

NextYears == YearsStep

InitCrawl ==
    CrawlStart /\ TreeIdle /\ NormIdle /\ NoiseIdle /\ ExtractIdle /\ MetaIdle /\ MainIdle

NextCrawl == CrawlStep

SpecCrawl == InitCrawl /\ [][NextCrawl]_vars

\* every request is answered (axios rejects after TIMEOUT at the latest) and
\* the consumer asks for the next document after each one
SpecCrawlLive == SpecCrawl /\ WF_vars(NextCrawl)

SpecYears == InitYears /\ [][NextYears]_vars

NextMain == MainStep

SpecMain == InitMain /\ [][NextMain]_vars

InitMeta == MetaStart /\ TreeIdle /\ NormIdle /\ NoiseIdle /\ ExtractIdle /\ MainIdle /\ CrawlIdle

NextMeta == MetaStep

SpecMeta == InitMeta /\ [][NextMeta]_vars

(***************************************************************************)
(* Properties of the tree builder.                                         *)
(***************************************************************************)
NodeIds == 1..Len(nodes)

\* the places <<p, k>> where node n is held: nodes[p].children[k] = n
Holders(n) ==
    {pk \in UNION {{<<p, k>> : k \in 1..Len(nodes[p].children)} : p \in NodeIds} :
        nodes[pk[1]].children[pk[2]] = n}

ParentOf(n) == (CHOOSE pk \in Holders(n) : TRUE)[1]

RECURSIVE ReachesRoot(_, _)
\* following parents from n arrives at root within fuel steps
ReachesRoot(n, fuel) ==
    IF n = 1 THEN TRUE
    ELSE IF fuel = 0 \/ Holders(n) = {} THEN FALSE
    ELSE ReachesRoot(ParentOf(n), fuel - 1)

\* C1: at every step of buildTree and in the returned tree, every non-root
\* node is held by exactly one children list, exactly once (it has exactly one
\* parent), root is held by none, and every node reaches root by following
\* parents (the structure is a tree, without cycles).
C1_TreeWellFormed ==
    /\ Holders(1) = {}
    /\ \A n \in NodeIds \ {1} : Cardinality(Holders(n)) = 1
    /\ \A n \in NodeIds : ReachesRoot(n, Len(nodes))

\* an article under a chapter under a diploma in a returned tree
C1_Witness ==
    /\ pc = "done"
    /\ \E a \in NodeIds \ {1} :
        /\ nodes[a].type = "article"
        /\ nodes[ParentOf(a)].type = "chapter"
        /\ nodes[ParentOf(ParentOf(a))].type = "diploma"

\* C2: the nearest ancestor other than root of an article node, when it has
\* one, is a chapter or diploma node whose header line occurred earlier in
\* the input than the header line of the article.
C2_ArticleUnderEarlierStructure ==
    \A a \in NodeIds \ {1} :
        (nodes[a].type = "article" /\ Holders(a) # {} /\ ParentOf(a) # 1) =>
            /\ nodes[ParentOf(a)].type \in {"chapter", "diploma"}
            /\ origin[ParentOf(a)] < origin[a]

\* two articles held by the same chapter: the first was popped for the second
C2_Witness ==
    /\ pc = "done"
    /\ \E a, b \in NodeIds \ {1} :
        /\ a # b
        /\ nodes[a].type = "article" /\ nodes[b].type = "article"
        /\ ParentOf(a) = ParentOf(b)
        /\ nodes[ParentOf(a)].type = "chapter"

\* C7: for every sequence of lines, buildTree followed by cleanTreeText ends,
\* without raising, with a tree whose root is a root node and with every line
\* consumed; the header-merge loop reads no line past the end.
C7_Terminates ==
    <>(pc = "done" /\ ~threw /\ nodes[1].type = "root" /\ i = Len(lines))

\* a run that ended after the header-merge loop absorbed the last line
C7_Witness ==
    /\ pc = "done"
    /\ Len(lines) >= 2
    /\ Len(nodes) = 2
    /\ nodes[2].header = LineText(0) \o " " \o LineText(Len(lines) - 1)

\* no line of the document matches a structural pattern
NoStructuralLine == \A k \in 1..Len(lines) : LineType(k - 1) = "null"

\* the body text held by the tree: the text fields of its nodes
HeldTexts == {nodes[n].text : n \in NodeIds} \ {Undefined}

\* C8 as stated: when no line matches a structural pattern the parse does not
\* fail and the tree, without diploma, chapter or article nodes, holds the
\* lines of the document as body content.
C8_FlatTreeHoldsLines ==
    (pc = "done" /\ NoStructuralLine) =>
        /\ ~threw
        /\ \A n \in NodeIds : nodes[n].type = "root"
        /\ \A k \in 1..Len(lines) :
            LineText(k - 1) # "" => \E t \in HeldTexts : Includes(t, LineText(k - 1))

\* C8 amended: when no line matches a structural pattern the parse does not
\* fail and the tree is the root node alone, without children and without
\* body text: the lines are dropped.
C8_BareRoot ==
    (pc = "done" /\ NoStructuralLine) => (~threw /\ nodes = <<RootNode>>)

\* a parse of two or more lines none of which is structural
C8_Witness == pc = "done" /\ NoStructuralLine /\ Len(lines) >= 2 /\ LineText(0) # ""

\* C20: at every step from its creation to the end of normalization an
\* article node has a bodyText that is a string, possibly empty, and an empty
\* children list, whatever lines follow its header.
C20_ArticleHasTextAndNoChildren ==
    \A n \in NodeIds :
        nodes[n].type = "article" =>
            /\ nodes[n].text # Undefined
            /\ nodes[n].children = <<>>

\* a parse has ended in which an article was given body text and a chapter
\* or another article was created after it
C20_Witness ==
    /\ pc = "done"
    /\ \E n \in NodeIds :
           /\ nodes[n].type = "article"
           /\ Truthy(nodes[n].text)
           /\ nodes[n].children = <<>>
           /\ \E m \in NodeIds : m > n /\ nodes[m].type \in {"chapter", "article"}

\* the for loop is at a line that matches no pattern while the stack top is
\* root
BodyLineAtRoot ==
    /\ pc = "for"
    /\ i < Len(lines)
    /\ LineType(i) = "null"
    /\ Top(stack) = 1

\* C21: in every state root.text is undefined, and a step taken for a body
\* line while the stack top is root changes neither a node nor the stack.
C21_RootHoldsNoText ==
    /\ [](nodes[1].text = Undefined)
    /\ [][BodyLineAtRoot => (nodes' = nodes /\ stack' = stack)]_vars

\* a parse has ended whose first line, not empty, was a body line met at root
\* and whose later lines gave an article its text
C21_Witness ==
    /\ pc = "done"
    /\ Len(lines) >= 3
    /\ LineType(0) = "null"
    /\ LineText(0) # ""
    /\ nodes[1].text = Undefined
    /\ \E n \in NodeIds : nodes[n].type = "article" /\ Truthy(nodes[n].text)

\* a line a header absorbs: not empty, shorter than 250 characters, matching
\* none of the three structural patterns, not starting a numbered sub-item,
\* not starting with the preamble caption, not ending in '.', ':' or ';'
Absorbable(t) ==
    /\ t # ""
    /\ Len(t) < MaxTitleLength
    /\ Classify(t) = "null"
    /\ ~(\E d \in 1..Len(t) :
            /\ \A m \in 1..d : IsDigit(SubSeq(t, m, m))
            /\ d < Len(t)
            /\ SubSeq(t, d + 1, d + 1) \in {".", "-"})
    /\ ~(Len(t) >= 9 /\ ToLower(SubSeq(t, 1, 9)) = "preâmbulo")
    /\ SubSeq(t, Len(t), Len(t)) \notin {".", ":", ";"}

\* the last line of the header that starts at line k: k for the exact
\* preamble caption, the end of the longest run of absorbable lines after k
\* otherwise
HeaderEnd(k) ==
    IF ToLower(LineText(k)) = "preâmbulo" THEN k
    ELSE CHOOSE e \in k..(Len(lines) - 1) :
            /\ \A m \in (k + 1)..e : Absorbable(LineText(m))
            /\ e + 1 < Len(lines) => ~Absorbable(LineText(e + 1))

RECURSIVE JoinedLines(_, _)
\* the texts of the lines k..e joined by single spaces
JoinedLines(k, e) ==
    IF e = k THEN LineText(k) ELSE JoinedLines(k, e - 1) \o " " \o LineText(e)

\* C26: the header of a node is the line that matched, followed, joined by
\* single spaces, by the longest run of lines right after it that are each
\* absorbable; the exact preamble caption absorbs none; the line after the
\* header is the next one handled.
C26_HeaderIsLongestRun ==
    /\ \A n \in NodeIds \ {1} :
          /\ nodes[n].header = JoinedLines(origin[n], HeaderEnd(origin[n]))
          /\ n < Len(origin) => origin[n + 1] > HeaderEnd(origin[n])
    /\ (pc = "for" /\ Len(nodes) > 1) => i > HeaderEnd(origin[Len(nodes)])

\* a diploma header that absorbed the line after it and stopped before a
\* sentence, which became its body text
C26_Witness ==
    /\ pc = "done"
    /\ Len(lines) = 3
    /\ Len(nodes) = 2
    /\ nodes[2].type = "diploma"
    /\ nodes[2].header = LineText(0) \o " " \o LineText(1)
    /\ LineText(1) # ""
    /\ nodes[2].text = LineText(2)

\* the exact preamble caption followed by an absorbable line, which became
\* its body text
C26_WitnessPreambulo ==
    /\ pc = "done"
    /\ Len(lines) >= 2
    /\ LineText(0) = "Preâmbulo"
    /\ Absorbable(LineText(1))
    /\ nodes[2].header = "Preâmbulo"
    /\ nodes[2].text = LineText(1)

\* the step adds a node of the given type
Creates(type) == Len(nodes') = Len(nodes) + 1 /\ nodes'[Len(nodes')].type = type

\* C27: the step that adds a diploma node leaves the stack as root followed
\* by the new diploma, and every diploma node is held by root, whatever
\* nodes were open when it was added.
C27_DiplomaUnderRoot ==
    /\ [][Creates("diploma") => stack' = <<1, Len(nodes')>>]_vars
    /\ [](\A n \in NodeIds :
             nodes[n].type = "diploma" => \A pk \in Holders(n) : pk[1] = 1)

\* a diploma added while a chapter and an article under it were open
C27_Witness ==
    /\ pc = "done"
    /\ Len(nodes) = 4
    /\ nodes[2].type = "chapter"
    /\ nodes[3].type = "article"
    /\ ParentOf(3) = 2
    /\ nodes[4].type = "diploma"
    /\ ParentOf(4) = 1
    /\ stack = <<1, 4>>

\* the nodes of a type created before node n
Earlier(n, type) == {m \in 1..(n - 1) : nodes[m].type = type}

\* the latest of a non-empty set of nodes
Latest(S) == CHOOSE m \in S : \A k \in S : k <= m

\* C28: the parent of a chapter node is the most recent diploma created
\* before it, root when there is none; never an article or a chapter.
C28_ChapterUnderLatestDiploma ==
    \A c \in NodeIds :
        nodes[c].type = "chapter" =>
            /\ Cardinality(Holders(c)) = 1
            /\ ParentOf(c) = (IF Earlier(c, "diploma") = {} THEN 1
                              ELSE Latest(Earlier(c, "diploma")))
            /\ nodes[ParentOf(c)].type \in {"diploma", "root"}

\* a chapter that follows an article of a diploma is held by the diploma
C28_Witness ==
    /\ pc = "done"
    /\ Len(nodes) = 4
    /\ nodes[2].type = "diploma"
    /\ nodes[3].type = "article"
    /\ nodes[4].type = "chapter"
    /\ ParentOf(4) = 2

\* C29: the parent of an article node is the most recent chapter when one
\* was created after the most recent diploma or there is no diploma, else
\* the most recent diploma, else root; never another article.
C29_ArticleUnderLatestStructure ==
    \A a \in NodeIds :
        nodes[a].type = "article" =>
            LET ds == Earlier(a, "diploma")
                cs == {c \in Earlier(a, "chapter") : \A d \in ds : d < c}
            IN  /\ Cardinality(Holders(a)) = 1
                /\ ParentOf(a) = (IF cs # {} THEN Latest(cs)
                                  ELSE IF ds # {} THEN Latest(ds)
                                  ELSE 1)
                /\ nodes[ParentOf(a)].type # "article"

\* an article that follows a diploma is held by it, though a chapter came
\* before the diploma
C29_Witness ==
    /\ pc = "done"
    /\ Len(nodes) = 4
    /\ nodes[2].type = "chapter"
    /\ nodes[3].type = "diploma"
    /\ nodes[4].type = "article"
    /\ ParentOf(4) = 3

\* the level of a kind of node
Level == [root |-> 0, diploma |-> 1, chapter |-> 2, article |-> 3]

\* C34: at every step the stack is not empty and its bottom is root; each
\* element above the bottom is the last child of the element below it; the
\* kinds from bottom to top are root, then at most one diploma, then at most
\* one chapter, then at most one article, so the stack holds at most 4 nodes
\* and no node of the tree lies deeper than 3 below root.
C34_StackIsRightmostPath ==
    /\ Len(stack) >= 1
    /\ stack[1] = 1
    /\ nodes[1].type = "root"
    /\ \A k \in 2..Len(stack) :
          /\ nodes[stack[k - 1]].children # <<>>
          /\ nodes[stack[k - 1]].children[Len(nodes[stack[k - 1]].children)] = stack[k]
          /\ Level[nodes[stack[k - 1]].type] < Level[nodes[stack[k]].type]
    /\ Len(stack) <= 4
    /\ \A n \in NodeIds \ {1} :
          \A pk \in Holders(n) : Level[nodes[pk[1]].type] < Level[nodes[n].type]

\* the stack holds root, a diploma, a chapter and an article, and a first
\* article was popped for the one on the stack
C34_Witness ==
    /\ Len(stack) = 4
    /\ nodes[stack[2]].type = "diploma"
    /\ nodes[stack[3]].type = "chapter"
    /\ nodes[stack[4]].type = "article"

\* the stack after an article and its chapter were popped for a second
\* chapter: root and that chapter, the last of root's two children
C34_WitnessPopped ==
    /\ pc = "done"
    /\ stack = <<1, 4>>
    /\ nodes[1].children = <<2, 4>>
    /\ nodes[2].type = "chapter"
    /\ nodes[2].children = <<3>>
    /\ nodes[4].type = "chapter"

RECURSIVE Preorder(_)
RECURSIVE PreorderAll(_)
\* the nodes of the subtree of n in pre-order
Preorder(n) == <<n>> \o PreorderAll(nodes[n].children)

\* the pre-orders of the subtrees of a list of nodes, one after the other
PreorderAll(children) ==
    IF children = <<>> THEN <<>>
    ELSE Preorder(Head(children)) \o PreorderAll(Tail(children))

\* C35: a pre-order traversal from root visits the nodes in the order in
\* which their header lines occur in the input, and a step either leaves a
\* children list as it is or appends one node at its end.
C35_PreorderIsLineOrder ==
    /\ [](\A n \in 2..Len(nodes) : origin[n - 1] < origin[n])
    /\ [](Preorder(1) = [n \in NodeIds |-> n])
    /\ [][\A p \in NodeIds :
             \/ nodes'[p].children = nodes[p].children
             \/ /\ Len(nodes'[p].children) = Len(nodes[p].children) + 1
                /\ SubSeq(nodes'[p].children, 1, Len(nodes[p].children))
                       = nodes[p].children]_vars

\* a diploma with an article, then a second diploma: root holds the two
\* diplomas in the order of their lines
C35_Witness ==
    /\ pc = "done"
    /\ origin = <<-1, 0, 1, 2>>
    /\ nodes[2].type = "diploma"
    /\ nodes[3].type = "article"
    /\ nodes[4].type = "diploma"
    /\ nodes[1].children = <<2, 4>>
    /\ nodes[2].children = <<3>>
    /\ Preorder(1) = <<1, 2, 3, 4>>

RECURSIVE BodyThrough(_, _, _)
\* the text of a node that starts as t0 after the lines k..e were appended
\* to it as body lines
BodyThrough(t0, k, e) ==
    IF e < k THEN t0
    ELSE LET t == BodyThrough(t0, k, e - 1)
         IN  IF Truthy(t) THEN t \o "\n" \o LineText(e) ELSE LineText(e)

\* the line at which the node after n starts, the end of the input for the
\* last node
NextOrigin(n) == IF n < Len(nodes) THEN origin[n + 1] ELSE Len(lines)

\* C36: the lines are taken one by one, none twice and none skipped; when
\* buildTree has returned, each node holds as header the line it starts at
\* and the lines absorbed after it, and as body text the lines between the
\* end of its header and the start of the next node, each once and in order;
\* the lines before the first node are in no node, and no two nodes start at
\* the same line.
C36_EachLineUsedOnce ==
    /\ [][i' = i \/ i' = i + 1]_vars
    /\ [][pc = "for" => (i' = i + 1 \/ pc' \in {"while", "clean"})]_vars
    /\ [](\A n, m \in 2..Len(origin) : origin[n] = origin[m] => n = m)
    /\ [](pc = "clean" =>
            /\ i = Len(lines)
            /\ nodes[1].text = Undefined /\ nodes[1].header = Undefined
            /\ \A k \in 0..(NextOrigin(1) - 1) : LineType(k) = "null"
            /\ \A n \in NodeIds \ {1} :
                  /\ LineType(origin[n]) = nodes[n].type
                  /\ nodes[n].header = JoinedLines(origin[n], HeaderEnd(origin[n]))
                  /\ HeaderEnd(origin[n]) < NextOrigin(n)
                  /\ \A k \in (HeaderEnd(origin[n]) + 1)..(NextOrigin(n) - 1) :
                        LineType(k) = "null"
                  /\ nodes[n].text =
                        BodyThrough(NewNode(nodes[n].type, "").text,
                                    HeaderEnd(origin[n]) + 1, NextOrigin(n) - 1))

\* a line before the first header and a header with one absorbed line: the
\* first is in no node, the others once each in the header of the one node
C36_Witness ==
    /\ pc = "clean"
    /\ Len(lines) = 3
    /\ LineType(0) = "null" /\ LineText(0) # ""
    /\ Len(nodes) = 2
    /\ origin = <<-1, 1>>
    /\ nodes[2].type = "article"
    /\ nodes[2].header = LineText(1) \o " " \o LineText(2)
    /\ nodes[2].text = ""
    /\ nodes[1].text = Undefined

\* the text node n has when buildTree returns, before cleanTreeText
RawText(n) ==
    BodyThrough(NewNode(nodes[n].type, "").text,
                HeaderEnd(origin[n]) + 1, NextOrigin(n) - 1)

\* C37: cleanTreeText changes only text fields: the number of nodes, and each
\* node's type, header and children with their order, are the same after it
\* as before; each node's text afterwards is a function of that node's own
\* text before (the five replacements when the text is truthy, the text
\* itself otherwise), and an empty text stays empty.
C37_CleanChangesOnlyText ==
    [][pc = "clean" /\ pc' = "done" =>
          /\ Len(nodes') = Len(nodes)
          /\ \A n \in NodeIds :
                /\ nodes'[n].type = nodes[n].type
                /\ nodes'[n].header = nodes[n].header
                /\ nodes'[n].children = nodes[n].children
                /\ nodes'[n].text = CleanText(nodes[n].text)
                /\ nodes[n].text = "" => nodes'[n].text = ""
                /\ nodes[n].text = Undefined => nodes'[n].text = Undefined]_vars

\* after cleanTreeText: an article whose two body lines were joined by the
\* normalization, under a root whose text was and is undefined
C37_Witness ==
    /\ pc = "done"
    /\ Len(lines) = 3
    /\ Len(nodes) = 2
    /\ nodes[1].children = <<2>>
    /\ nodes[2].type = "article"
    /\ nodes[2].header = LineText(0)
    /\ RawText(2) = LineText(1) \o "\n" \o LineText(2)
    /\ nodes[2].text = LineText(1) \o " " \o LineText(2)
    /\ nodes[1].text = Undefined

\* after cleanTreeText: an article with a text, followed by an article whose
\* text was and is empty
C37_WitnessEmpty ==
    /\ pc = "done"
    /\ Len(nodes) = 3
    /\ nodes[1].children = <<2, 3>>
    /\ Truthy(nodes[2].text)
    /\ nodes[2].text = CleanText(RawText(2))
    /\ RawText(3) = ""
    /\ nodes[3].text = ""

\* the step handles line i as body content: it matches no pattern, and a line
\* a header absorbs is never line i of the for loop
BodyLineStep == pc = "for" /\ i < Len(lines) /\ LineType(i) = "null" /\ i' = i + 1

\* the nodes after line i is appended to the text of the stack top: after a
\* newline when the node holds text, as its whole text otherwise
WithLineOnTop ==
    [nodes EXCEPT ![Top(stack)].text =
        IF Truthy(@) THEN @ \o "\n" \o LineText(i) ELSE LineText(i)]

\* C30 as stated: a body line is appended to the text of the stack top, the
\* node created last, whatever that node is; no other node and not the stack
\* change.
C30_BodyLineAppendedToTop ==
    /\ [](Top(stack) = Len(nodes))
    /\ [][BodyLineStep => nodes' = WithLineOnTop /\ stack' = stack]_vars

\* C30 amended: a body line is appended to the text of the stack top, the
\* node created last, unless that node is root, and then no node changes;
\* no other node and not the stack change.
C30_BodyLineAppendedBelowRoot ==
    /\ [](Top(stack) = Len(nodes))
    /\ [][(BodyLineStep /\ Top(stack) # 1) => nodes' = WithLineOnTop /\ stack' = stack]_vars
    /\ [][(BodyLineStep /\ Top(stack) = 1) => nodes' = nodes /\ stack' = stack]_vars

\* an article that holds two body lines joined by one newline, before the
\* normalization of its text
C30_Witness ==
    /\ pc = "clean"
    /\ Len(lines) = 3
    /\ Len(nodes) = 2
    /\ nodes[2].type = "article"
    /\ nodes[2].header = LineText(0)
    /\ LineText(1) # "" /\ LineText(2) # ""
    /\ nodes[2].text = LineText(1) \o "\n" \o LineText(2)
    /\ nodes[1] = [RootNode EXCEPT !.children = <<2>>]
    /\ stack = <<1, 2>>

(***************************************************************************)
(* Properties of the normalizer.                                           *)
(***************************************************************************)
\* C3: normalization is idempotent: normalizing a normalized body text
\* yields the same text.
C3_NormalizeIdempotent == normPc = "twice" => normTwice = normOnce

\* the indices of the line breaks of s
NewlinesOf(s) == {k \in 1..Len(s) : Char(s, k) = "\n"}

\* the line breaks of s that the look-ahead of the third replacement spares
EnumeratedBreaks(s) == {k \in NewlinesOf(s) : StartsEnumerated(s, k + 1)}

\* C14 as claimed: the line break of 'item 1.\nitem 2.' is kept, and the line
\* breaks of a normalized text are as many as the line breaks of the text
\* that are followed by an enumeration marker (those are kept, every other
\* one is replaced by a space).
C14_EnumeratedBreaksKept ==
    normPc \in {"once", "twice"} =>
        /\ normIn = "item 1.\nitem 2." => normOnce = "item 1.\nitem 2."
        /\ Cardinality(NewlinesOf(normOnce)) = Cardinality(EnumeratedBreaks(normIn))

\* the line breaks of s that follow a character other than white space and
\* are followed at once by a numeral and, after optional white space, a list
\* delimiter
NumeralBreaks(s) ==
    {k \in EnumeratedBreaks(s) :
        k > 1 /\ ~IsSpace(Char(s, k - 1)) /\ IsDigit(Char(s, k + 1))}

\* C14 as amended: a line break that follows a character other than white
\* space and is followed at once by a numeral marker is kept, as in
\* 'item 1.\n2. item'; every line break that remains in the normalized text is
\* followed by an enumeration marker (a numeral or one letter, then a list
\* delimiter), every other one is replaced by a space or removed; the line
\* break of 'item 1.\nitem 2.' is followed by a word and becomes a space.
C14_MarkerBreaksKept ==
    normPc \in {"once", "twice"} =>
        /\ normIn = "item 1.\nitem 2." => normOnce = "item 1. item 2."
        /\ normIn = "item 1.\n2. item" => normOnce = "item 1.\n2. item"
        /\ Cardinality(NewlinesOf(normOnce)) >= Cardinality(NumeralBreaks(normIn))
        /\ NewlinesOf(normOnce) = EnumeratedBreaks(normOnce)

\* a text with two line breaks, one followed by no marker and one before a
\* numeral marker, has been normalized: one line break is left
C14_Witness ==
    /\ normPc = "once"
    /\ Cardinality(NewlinesOf(normIn)) = 2
    /\ Cardinality(NumeralBreaks(normIn)) = 1
    /\ Cardinality(NewlinesOf(normOnce)) = 1

\* the indices of s at which a letter, a hyphen, a line break and a letter
\* follow one another
WrapBreaks(s) ==
    {k \in 1..Len(s) :
        /\ IsLetter(Char(s, k))
        /\ Char(s, k + 1) = "-"
        /\ IsLineBreak(Char(s, k + 2))
        /\ IsLetter(Char(s, k + 3))}

\* s is made of letters and hyphenated wraps only: every hyphen follows a
\* letter and ends a line, every line break follows a hyphen and precedes a
\* letter
OnlyWraps(s) ==
    /\ s # ""
    /\ \A k \in 1..Len(s) :
           \/ IsLetter(Char(s, k))
           \/ Char(s, k) = "-" /\ IsLetter(Char(s, k - 1)) /\ Char(s, k + 1) = "\n"
           \/ Char(s, k) = "\n" /\ Char(s, k - 1) = "-" /\ IsLetter(Char(s, k + 1))

\* C15: normalization joins every hyphenated wrap: after normalizing any body
\* text no letter, hyphen, line break, letter is left in it, and a text made
\* of letters and hyphenated wraps only, also of several wraps in a row,
\* becomes a text of letters only.
C15_NoWrapBreakLeft ==
    normPc \in {"once", "twice"} =>
        /\ WrapBreaks(normOnce) = {}
        /\ OnlyWraps(normIn) => \A k \in 1..Len(normOnce) : IsLetter(Char(normOnce, k))

\* t neither starts nor ends with white space, holds no two white-space
\* characters in a row, and each of its line breaks is followed at once by an
\* enumeration marker: a numeral or one letter, then, after optional white
\* space, a list delimiter
Tidy(t) ==
    /\ ~IsSpace(Char(t, 1))
    /\ ~IsSpace(Char(t, Len(t)))
    /\ \A k \in 1..(Len(t) - 1) : ~(IsSpace(Char(t, k)) /\ IsSpace(Char(t, k + 1)))
    /\ \A k \in NewlinesOf(t) :
          /\ IsDigit(Char(t, k + 1)) \/ IsAsciiLetter(Char(t, k + 1))
          /\ StartsEnumerated(t, k + 1)

\* C32: a normalized body text that is not empty has no white space at its
\* start or end and no two white-space characters in a row, and every line
\* break left in it is followed at once by an enumeration marker.
C32_NormalizedTextIsTidy ==
    /\ (normPc \in {"once", "twice"} /\ Truthy(normIn) /\ normOnce # "") => Tidy(normOnce)
    /\ (normPc = "twice" /\ Truthy(normOnce) /\ normTwice # "") => Tidy(normTwice)

\* a text that starts with two spaces and holds a line break before a
\* marker has been normalized: the spaces are gone, the line break is kept
C32_Witness ==
    /\ normPc = "once"
    /\ IsSpace(Char(normIn, 1))
    /\ IsSpace(Char(normIn, 2))
    /\ NewlinesOf(normOnce) # {}
    /\ Cardinality(NewlinesOf(normIn)) > Cardinality(NewlinesOf(normOnce))

(***************************************************************************)
(* Properties of the noise filter.                                         *)
(***************************************************************************)
\* the five rejection predicates, on the trimmed text of a line
Rejected(line) ==
    \/ IsDigitsOnly(Trim(line))
    \/ HasPublicationName(Trim(line))
    \/ IsVolumeHeader(Trim(line))
    \/ IsFooter(Trim(line))
    \/ IsCategoryCaption(Trim(line))

\* the lines of the vocabulary that some predicate rejects
RejectedLines == {l \in NoiseLines : Rejected(l)}

\* the indices of the lines of q that no predicate rejects
KeptIndices(q) == {k \in 1..Len(q) : q[k] \notin RejectedLines}

\* the j-th smallest element of the set S of numbers
Nth(S, j) == CHOOSE x \in S : Cardinality({y \in S : y <= x}) = j

\* C5: the output of the noise filter is the subsequence of its input made
\* of exactly the lines that match none of the five rejection predicates, in
\* their input order and unaltered (so it is no longer than the input).
C5_FilterKeepsExactlyUnrejected ==
    noisePc = "once" =>
        /\ Len(noiseOut) = Cardinality(KeptIndices(noiseIn))
        /\ Len(noiseOut) <= Len(noiseIn)
        /\ \A j \in 1..Len(noiseOut) : noiseOut[j] = noiseIn[Nth(KeptIndices(noiseIn), j)]

\* a filtered input whose first line is a footer and whose second and third
\* lines, different from each other, are kept
C5_Witness ==
    /\ noisePc = "once"
    /\ Len(noiseIn) = 3
    /\ IsFooter(Trim(noiseIn[1]))
    /\ noiseOut = <<noiseIn[2], noiseIn[3]>>
    /\ noiseIn[2] # noiseIn[3]

\* C6: the noise filter is idempotent: filtering its own output changes
\* nothing.
C6_FilterIdempotent == noisePc = "twice" => noiseOut2 = noiseOut

\* a second filtering of an output from which the first had dropped a line
C6_Witness ==
    /\ noisePc = "twice"
    /\ Len(noiseOut) = 2
    /\ Len(noiseIn) = 3
    /\ noiseOut[1] # noiseOut[2]

(***************************************************************************)
(* Properties of the line reconstructor.                                   *)
(***************************************************************************)
\* C4: given the same runs of a page in any input order, the line
\* reconstructor produces the same line sequence.
C4_OrderIndependent ==
    (call = 2 /\ extractPc = "returned") => textLines = firstLines

\* the page whose grouping has just ended
GroupedPage == pageNo - 1

\* the grouping loop of a page has just ended: pageItems holds its runs as
\* sorted, textLines its lines
PageGrouped == extractPc = "page" /\ pageNo > 1 /\ pageItems # <<>>

\* the runs at indices k and k + 1 of pageItems are in one line of the page
\* (the texts of the runs of a page are different letters)
SameLine(k) ==
    \E l \in 1..Len(textLines) :
        /\ textLines[l].page = GroupedPage
        /\ Includes(textLines[l].text, pageItems[k].text \o " " \o pageItems[k + 1].text)

\* C17: a run that carries the end-of-line flag ends its line: the run after
\* it in sorted order is in another line, also when its Y is within the
\* tolerance.
C17_EolRunEndsLine ==
    PageGrouped =>
        \A k \in 1..(Len(pageItems) - 1) : pageItems[k].hasEol => ~SameLine(k)

\* C18: two runs that are consecutive in the sorted order of a page are in
\* different lines when their Y values differ by more than 5, and in the
\* same line when they differ by 5 or less.
C18_LineBreakIffFar ==
    PageGrouped =>
        \A k \in 1..(Len(pageItems) - 1) :
            SameLine(k) <=> Abs(pageItems[k + 1].y - pageItems[k].y) <= GroupTolerance

\* the X of the run of page p whose text is the letter c
RunX(p, c) == pages[p][CHOOSE k \in 1..Len(pages[p]) : pages[p][k].text = c].x

\* the X values of the runs of a line, in the order of its text: the text is
\* the letters of its runs with one space between them
LineXs(line) ==
    [k \in 1..((Len(line.text) + 1) \div 2) |->
        RunX(line.page, Char(line.text, 2 * k - 1))]

\* the lines are in page order
PagesInOrder ==
    \A j, k \in 1..Len(textLines) :
        j < k => textLines[j].page <= textLines[k].page

\* the lines of one page have strictly decreasing Y
TopToBottom ==
    \A j, k \in 1..Len(textLines) :
        (j < k /\ textLines[j].page = textLines[k].page)
            => textLines[j].y > textLines[k].y

\* the runs of every line are in ascending order of X
LeftToRight ==
    \A l \in 1..Len(textLines) :
        \A j, k \in 1..Len(LineXs(textLines[l])) :
            j < k => LineXs(textLines[l])[j] <= LineXs(textLines[l])[k]

\* C19: the lines returned are in reading order: by page, within a page with
\* strictly decreasing Y, and the runs of each line from left to right.
C19_ReadingOrder ==
    extractPc = "returned" => (PagesInOrder /\ TopToBottom /\ LeftToRight)

(***************************************************************************)
(* Properties of the metadata extractor.                                   *)
(***************************************************************************)
\* the tokens convertDateToISO works on
DateParts(t) == SplitSpaces(StripDe(ToLower(t)))

\* the token convertDateToISO takes for the month: the first token the month
\* table has an entry for, when it is neither the first nor the last token,
\* and the second token otherwise
MonthTokenIndex(parts) ==
    IF FindMonthIndex(parts) > 0 /\ FindMonthIndex(parts) + 1 < Len(parts)
    THEN FindMonthIndex(parts)
    ELSE 1

\* the found text cannot be converted to day/month/year: fewer than three
\* tokens, no month code for the month token, or a year token (the one after
\* the month token) that is not four characters long
ConversionFails(t) ==
    LET parts == DateParts(t)
    IN  \/ Len(parts) < 3
        \/ ~Truthy(MapGet(PartAt(parts, MonthTokenIndex(parts))))
        \/ Len(PartAt(parts, MonthTokenIndex(parts) + 1)) # 4

DeclaredYearDefault == fileYear \o "-01-01"

\* C9 as claimed: whenever no date text is found, or the found text cannot be
\* converted, the date is <declaredYear>-01-01; and the call never throws.
C9_UnrecoveredDateIsDeclaredYear ==
    metaPc = "done" =>
        /\ ~metaThrew
        /\ (foundDateText = "" \/ ConversionFails(foundDateText))
               => dateStr = DeclaredYearDefault

\* C9 as amended: when no date text is found the date is
\* <declaredYear>-01-01; when a date text is found that cannot be converted,
\* the date is the current date; and the call never throws.
C9_DeclaredYearOnlyWithoutDateText ==
    metaPc = "done" =>
        /\ ~metaThrew
        /\ foundDateText = "" => dateStr = DeclaredYearDefault
        /\ (foundDateText # "" /\ ConversionFails(foundDateText)) => dateStr = today

\* a header whose text before the bar has a month as its first word: the
\* text is found, not converted, and the date is the current date, which is
\* not the default of the declared year
C9_Witness ==
    /\ metaPc = "done"
    /\ ~metaThrew
    /\ foundDateText # ""
    /\ FindMonthIndex(DateParts(foundDateText)) = 0
    /\ ConversionFails(foundDateText)
    /\ dateStr = today
    /\ dateStr # DeclaredYearDefault

\* /^\d{4}-\d{2}-\d{2}$/ of the output schema
IsIsoDate(d) ==
    /\ Len(d) = 10
    /\ \A k \in {1, 2, 3, 4, 6, 7, 9, 10} : IsDigit(Char(d, k))
    /\ Char(d, 5) = "-"
    /\ Char(d, 8) = "-"

\* C10: for every line window and every declared four-digit year the date
\* extractGlobalMetadata returns has the form YYYY-MM-DD.
C10_DateMatchesSchema == (metaPc = "done" /\ ~metaThrew) => IsIsoDate(dateStr)

\* the record the current invocation returns
MetaRecord == [date |-> dateStr, reference |-> fullReference, threw |-> metaThrew]

\* C11 as claimed: a second invocation of extractGlobalMetadata on the same
\* lines and the same declared year and number returns the record the first
\* returned, whatever the day of either invocation.
C11_SameInputSameRecord ==
    (metaPc = "done" /\ metaCall = 2) => MetaRecord = firstMeta

\* C11 as amended: the second invocation returns the same reference and ends
\* the same way; its date is the same too unless a date text was found that
\* cannot be converted, in which case each invocation returns the day it ran.
C11_SameRecordButCurrentDate ==
    (metaPc = "done" /\ metaCall = 2) =>
        /\ fullReference = firstMeta.reference
        /\ metaThrew = firstMeta.threw
        /\ IF foundDateText # "" /\ ConversionFails(foundDateText)
           THEN dateStr = today
           ELSE dateStr = firstMeta.date

\* the second invocation, run on a day that is neither the day of the first
\* nor the date of the document, has returned the date and the reference the
\* first returned
C11_Witness ==
    /\ metaPc = "done"
    /\ metaCall = 2
    /\ foundDateText # ""
    /\ ~ConversionFails(foundDateText)
    /\ dateStr = firstMeta.date
    /\ dateStr # today
    /\ fullReference = firstMeta.reference
    /\ fullReference # ""

\* the 1-based index of the line at which the scan breaks: the first line of
\* the window the header pattern matches, 0 when there is none
FirstHeader(ls) ==
    LET hs == {k \in 1..ScanEnd(ls) : MetaFacts[ls[k]].header.matched}
    IN  IF hs = {} THEN 0 ELSE CHOOSE k \in hs : \A h \in hs : k <= h

\* no line of the window holds a bare date
NoBareDate(ls) == \A k \in 1..ScanEnd(ls) : MetaFacts[ls[k]].date = ""

EndsWith(s, suffix) ==
    /\ Len(s) >= Len(suffix)
    /\ SubSeq(s, Len(s) - Len(suffix) + 1, Len(s)) = suffix

BoletimLine == "Boletim do Trabalho e Emprego, n.º 5 | Vol. 2"

DatedHeaderLine == "15 de março de 2024 | n.º 5 | Vol. 2"

\* C12 as claimed: when the window holds the line 'Boletim do Trabalho e
\* Emprego, n.º 5 | Vol. 2' and no line before it matches the header pattern,
\* the reference is 'BTE n.º 5, Vol. 2, de <phrase>'; and when no date text
\* is found the reference ends with ', de <declared year>'.
C12_BoletimLineIsHeader ==
    metaPc = "done" =>
        /\ \A k \in 1..ScanEnd(metaLines) :
               (metaLines[k] = BoletimLine /\ FirstHeader(metaLines) \notin 1..(k - 1))
                   => StartsWith(fullReference, "BTE n.º 5, Vol. 2, de ")
        /\ foundDateText = "" => EndsWith(fullReference, ", de " \o fileYear)

\* C12 as amended: when the first line of the window that matches the header
\* pattern is '15 de março de 2024 | n.º 5 | Vol. 2', the reference is 'BTE
\* n.º 5, Vol. 2, de 15 de março de 2024'; the line 'Boletim do Trabalho e
\* Emprego, n.º 5 | Vol. 2' does not match the pattern, and a window that
\* holds it, no header and no bare date gives 'BTE n.º <declared number>, de
\* <declared year>'; and when no date text is found the reference ends with
\* ', de <declared year>'.
C12_BarredLineIsHeader ==
    metaPc = "done" =>
        /\ (FirstHeader(metaLines) # 0
              /\ metaLines[FirstHeader(metaLines)] = DatedHeaderLine)
               => fullReference = "BTE n.º 5, Vol. 2, de 15 de março de 2024"
        /\ ~MetaFacts[BoletimLine].header.matched
        /\ ((\E k \in 1..ScanEnd(metaLines) : metaLines[k] = BoletimLine)
              /\ FirstHeader(metaLines) = 0
              /\ NoBareDate(metaLines))
               => fullReference = "BTE n.º " \o fileNumber \o ", de " \o fileYear
        /\ foundDateText = "" => EndsWith(fullReference, ", de " \o fileYear)

\* the line with the publication name comes first and is passed over, the
\* line with the bar before the number is taken as the header
C12_Witness ==
    /\ metaPc = "done"
    /\ metaLines = <<BoletimLine, DatedHeaderLine>>
    /\ foundNumber = "5"
    /\ foundVolume = "2"
    /\ fullReference = "BTE n.º 5, Vol. 2, de 15 de março de 2024"

\* the date phrase of a window: the text before the bar of the header the
\* scan breaks at, or without such a header the first bare date, or ""
PhraseOf(ls) ==
    LET ds == {k \in 1..ScanEnd(ls) : MetaFacts[ls[k]].date # ""}
    IN  IF FirstHeader(ls) # 0
        THEN Trim(MetaFacts[ls[FirstHeader(ls)]].header.prefix)
        ELSE IF ds = {} THEN ""
        ELSE MetaFacts[ls[CHOOSE k \in ds : \A d \in ds : k <= d]].date

FirstTen(ls) == SubSeq(ls, 1, IF Len(ls) < MetaWindow THEN Len(ls) ELSE MetaWindow)

\* the lines that can bear on the result: those of the first 10 up to the
\* first that matches the header pattern
Inspected(ls) ==
    IF FirstHeader(FirstTen(ls)) # 0
    THEN SubSeq(ls, 1, FirstHeader(FirstTen(ls)))
    ELSE FirstTen(ls)

\* C31: the scan takes the lines in order, reads none at index 10 or beyond
\* and none after the first that matches the header pattern, at which it
\* stops; the date phrase, the number and the volume, and with them the date
\* and the reference, are those of the inspected lines alone, the number and
\* the volume those of that first header.
C31_ScanStopsAtFirstHeader ==
    /\ [](metaI <= Len(Inspected(metaLines)) /\ metaI <= MetaWindow)
    /\ [][(metaPc = "scan" /\ metaCall' = metaCall)
            => \/ metaPc' = "scan" /\ metaI' = metaI + 1
                  /\ ~MetaFacts[metaLines[metaI + 1]].header.matched
               \/ metaPc' = "assemble" /\ metaI' = metaI
                  /\ metaI + 1 = Len(Inspected(metaLines))
                  /\ MetaFacts[metaLines[metaI + 1]].header.matched
               \/ metaPc' = "assemble" /\ metaI' = metaI
                  /\ metaI = Len(Inspected(metaLines))]_vars
    /\ [](metaPc \in {"assemble", "done"} =>
            LET seen == Inspected(metaLines)
                h == FirstHeader(seen)
            IN  /\ foundDateText = PhraseOf(seen)
                /\ foundNumber = (IF h # 0 THEN MetaFacts[seen[h]].header.number
                                  ELSE fileNumber)
                /\ foundVolume = (IF h # 0 THEN MetaFacts[seen[h]].header.volume ELSE ""))

\* a bare date is the last line of the window and a header the first line
\* outside it: the number is the declared one, no volume, the date phrase
\* that of the bare date
C31_Witness ==
    /\ metaPc = "done"
    /\ Len(metaLines) = MetaWindow + 1
    /\ metaLines[MetaWindow] = "22 de maio de 2024"
    /\ metaLines[MetaWindow + 1] = DatedHeaderLine
    /\ foundDateText = "22 de maio de 2024"
    /\ foundNumber = fileNumber
    /\ foundVolume = ""
    /\ fullReference = "BTE n.º " \o fileNumber \o ", de 22 de maio de 2024"

\* two headers within the window: the number and the volume are those of
\* the first
C31_WitnessFirstOfTwo ==
    /\ metaPc = "done"
    /\ metaLines = <<"de 2024 | N.º 3 | vol. 4", DatedHeaderLine>>
    /\ foundNumber = "3"
    /\ foundVolume = "4"

\* C38: a header match takes precedence over a bare date.  When a line of the
\* window matches the header pattern, the date phrase is exactly the text
\* that header has before its bar, whatever bare date an earlier line held:
\* the date is the conversion of that text and the reference carries it; and
\* when that text is empty the date is <declaredYear>-01-01 and the reference
\* ends with ', de <declaredYear>'.
C38_HeaderOverridesBareDate ==
    LET h == FirstHeader(FirstTen(metaLines))
        header == MetaFacts[metaLines[h]].header
    IN  h # 0 =>
          /\ metaPc \in {"assemble", "done"} => foundDateText = header.prefix
          /\ (metaPc = "done" /\ ~metaThrew) =>
                IF header.prefix = ""
                THEN /\ dateStr = fileYear \o "-01-01"
                     /\ fullReference = "BTE n.º " \o header.number \o ", Vol. "
                                            \o header.volume \o ", de " \o fileYear
                ELSE /\ dateStr = convertDateToISO(header.prefix, today).value
                     /\ fullReference = "BTE n.º " \o header.number \o ", Vol. "
                                            \o header.volume \o ", "
                                            \o (IF StartsWithCI(header.prefix, "de ")
                                                THEN "" ELSE "de ")
                                            \o header.prefix

\* a bare date, then a header with nothing before its bar: the bare date is
\* in neither the date nor the reference, which have the declared year
C38_Witness ==
    /\ metaPc = "done"
    /\ metaLines = <<"22 de maio de 2024", "| n.º 9 | Vol. 1">>
    /\ MetaFacts[metaLines[1]].date = "22 de maio de 2024"
    /\ foundDateText = ""
    /\ dateStr = fileYear \o "-01-01"
    /\ fullReference = "BTE n.º 9, Vol. 1, de " \o fileYear

\* a bare date, then a header with a date before its bar: the date and the
\* reference are those of the header
C38_WitnessDatedHeader ==
    /\ metaPc = "done"
    /\ metaLines = <<"22 de maio de 2024", DatedHeaderLine>>
    /\ foundDateText = MetaFacts[DatedHeaderLine].header.prefix
    /\ foundDateText # "22 de maio de 2024"
    /\ dateStr = convertDateToISO(foundDateText, today).value

(***************************************************************************)
(* Properties of parse.                                                    *)
(***************************************************************************)
\* the raw lines of the vocabulary that some predicate of the filter rejects
RejectedParseLines == {l \in ParseLines : Rejected(l)}

\* the texts of the tree under construction: the headers and body texts of
\* its nodes and the header being merged
TreeTexts ==
    ({nodes[n].header : n \in NodeIds} \cup {nodes[n].text : n \in NodeIds}
        \cup {headerText}) \ {Undefined}

\* C16: in parse the tree builder receives only lines that passed the noise
\* filter, in their order, and at no step does the text of a rejected raw
\* line (the page number '42') occur in a header or a body text of the tree.
C16_RejectedLinesNeverReachTree ==
    /\ pc # "start" =>
           /\ \A k \in 1..Len(lines) : lines[k] \notin RejectedParseLines
           /\ Len(lines) = Cardinality({k \in 1..Len(noiseIn) :
                                           noiseIn[k] \notin RejectedParseLines})
    /\ \A r \in RejectedParseLines : \A t \in TreeTexts : ~Includes(t, Trim(r))

\* a parse whose raw lines have the page number between an article header
\* and a sentence has ended: the article holds the sentence alone
C16_Witness ==
    /\ pc = "done"
    /\ noiseIn = <<"Artigo 1.º", "42", "Texto geral.">>
    /\ Len(nodes) = 2
    /\ nodes[2].type = "article"
    /\ nodes[2].text = "Texto geral."

(***************************************************************************)
(* Properties of main.                                                     *)
(***************************************************************************)
\* C22: fs.writeFileSync is called for a document only after parser.parse
\* returned for it and its record passed the schema; for a document whose
\* parse or validation throws it is never called.
C22_SavedOnlyAfterValidation ==
    /\ savedDocs \subseteq (parsedDocs \cap validDocs)
    /\ \A k \in 1..docNo : stream[k].fate \in {"parse", "schema"} => k \notin savedDocs

\* the run has ended: the first document failed validation and has no file,
\* a later one was saved
C22_Witness ==
    /\ mainPc = "report"
    /\ Len(stream) >= 2
    /\ stream[1].fate = "schema"
    /\ 1 \in parsedDocs
    /\ 1 \notin savedDocs
    /\ stream[1].dir \notin outputs
    /\ \E k \in 2..Len(stream) : k \in savedDocs /\ stream[k].dir \in outputs

\* C23: a document that fails is counted as an error and the loop goes on
\* with the next one: the catch clause returns to the head of the loop, the
\* report comes only when the stream is exhausted, and at the head of the
\* loop and at the report totalDocs = successCount + errorCount = the number
\* of documents taken, each counted once.
C23_FailureCountedLoopGoesOn ==
    /\ [](mainPc \in {"loop", "report"}
            => totalDocs = successCount + errorCount /\ totalDocs = docNo)
    /\ [](mainPc \in {"mkdir", "parse", "validate", "save", "catch"}
            => totalDocs = successCount + errorCount + 1 /\ totalDocs = docNo)
    /\ [](mainPc = "report" => totalDocs = Len(stream))
    /\ [][mainPc = "catch" => mainPc' = "loop" /\ errorCount' = errorCount + 1]_vars

\* the run has ended: the first document failed in parse, the second in the
\* schema and the third was saved
C23_Witness ==
    /\ mainPc = "report"
    /\ Len(stream) = 3
    /\ stream[1].fate = "parse"
    /\ stream[2].fate = "schema"
    /\ stream[3].fate = "ok"
    /\ totalDocs = 3
    /\ errorCount = 2
    /\ successCount = 1

(***************************************************************************)
(* Properties of the crawler.                                              *)
(***************************************************************************)
\* the years of the page that came from a form URL
YearsOf(url) == IF url = FORM_URL_ISSUE THEN issueYears ELSE offprintYears

\* the number of options of a select whose trimmed text is a year
YearCount(opts) == Cardinality({k \in 1..Len(opts) : IsYearText(Trim(opts[k].text))})

\* more than 30% of the options of the select are years
Qualifies(opts) == 10 * YearCount(opts) > 3 * Len(opts)

\* r holds the year options of the select, each as often as the select does,
\* under their trimmed labels
SameYearLabels(r, opts) ==
    /\ Len(r) = YearCount(opts)
    /\ \A k \in 1..Len(opts) :
          LET txt == Trim(opts[k].text)
          IN  IsYearText(txt)
                  => Cardinality({j \in 1..Len(r) : r[j].label = txt})
                         = Cardinality({j \in 1..Len(opts) : Trim(opts[j].text) = txt})

PositiveLimit == limit # <<>> /\ limit[1] > 0

\* C25: with a positive limit n at most n documents are collected and
\* yielded and no download request is issued once n are collected; without a
\* limit, or with one that is not positive, the limit is never reached:
\* every year offered is scanned until MAX_CONSECUTIVE_FAILURES requests in
\* a row have failed.
C25_AtMostLimitDocuments ==
    /\ [](PositiveLimit => totalCollected <= limit[1] /\ yielded <= limit[1])
    /\ [](~lateRequest)
    /\ []((crawlPc # "start" /\ ~PositiveLimit) => maxLimit = Infinity /\ ~limitReached)
    /\ [][(~PositiveLimit /\ crawlPc = "while"
               /\ consecutiveFailures < MAX_CONSECUTIVE_FAILURES)
            => crawlPc' = "fetch"]_vars
    /\ [][(~PositiveLimit /\ crawlPc = "year" /\ yearIdx < Len(YearsFor(docType)))
            => crawlPc' = "while"]_vars

\* crawlAll(2) has ended with two documents yielded after two download
\* requests, the second year of the issues and the offprints never scanned
C25_Witness ==
    /\ crawlPc = "done"
    /\ limit = <<2>>
    /\ yielded = 2
    /\ downloads = 2
    /\ Len(issueYears) = 2
    /\ yearIdx = 1
    /\ Len(offprintYears) > 0

\* crawlAll(0) has yielded more documents than any limit given
C25_WitnessNoLimit ==
    /\ limit = <<0>>
    /\ yielded > MaxLimit + 1
    /\ crawlPc = "done"

\* C33: the scan of a year asks for the numbers 1, 2, 3, ... one after the
\* other, each document found is yielded before the next number is asked
\* for, a document found sets the count of failures in a row to 0 and a
\* failure adds 1 to it, the scan ends at once when 10 in a row have failed
\* or the limit is reached and at nothing else; with no document beyond
\* MaxNum no number beyond MaxNum + 10 is asked for, and crawlAll ends.
C33_YearScanInOrderAndEnds ==
    /\ [][(crawlPc = "year" /\ crawlPc' = "while") => currentNum' = 1
                                                       /\ consecutiveFailures' = 0]_vars
    /\ [][(crawlPc = "while" /\ (limitReached
                                   \/ consecutiveFailures >= MAX_CONSECUTIVE_FAILURES))
            => crawlPc' = "year" /\ downloads' = downloads]_vars
    /\ [][(crawlPc = "while" /\ ~limitReached
                              /\ consecutiveFailures < MAX_CONSECUTIVE_FAILURES)
            => crawlPc' = "fetch" /\ downloads' = downloads + 1
                  /\ currentNum' = currentNum]_vars
    /\ [][crawlPc = "fetch"
            => /\ currentNum' = currentNum + 1
               /\ crawlPc' = "while"
               /\ \/ yielded' = yielded + 1 /\ totalCollected' = totalCollected + 1
                     /\ consecutiveFailures' = 0
                  \/ yielded' = yielded /\ totalCollected' = totalCollected
                     /\ consecutiveFailures' = consecutiveFailures + 1]_vars
    /\ [](yielded = totalCollected)
    /\ [](consecutiveFailures <= MAX_CONSECUTIVE_FAILURES)
    /\ [](currentNum <= MaxNum + MAX_CONSECUTIVE_FAILURES + 1)
    /\ <>(crawlPc = "done")

\* the scan of a year has ended after a document and then 10 failures in a
\* row, without a limit
C33_Witness ==
    /\ crawlPc = "year"
    /\ maxLimit = Infinity
    /\ consecutiveFailures = MAX_CONSECUTIVE_FAILURES
    /\ currentNum = MaxNum + MAX_CONSECUTIVE_FAILURES + 1
    /\ yielded > 0

=============================================================================
